---- MODULE Spec2Model ----
(***************************************************************************)
(* Model of the stock dashboard's data pipeline.                           *)
(*                                                                         *)
(*   - the numeric kernel of src/utils/math.ts (calculateSMA, calculateEMA,*)
(*     calculateRSI, calculateMACD, calculateKDJ), as operators computed   *)
(*     loop by loop as the code computes them;                             *)
(*   - getStockData of src/unnamed/part_002 (the data service): candidate  *)
(*     queries, processYahooResult, weekly/monthly merging, 60m/15m        *)
(*     re-bucketing, daily close correction and the final mapping.         *)
(*                                                                         *)
(* Numbers.  A JavaScript number is modelled as a fraction [n, d]:         *)
(* d > 0 is the finite value n/d in lowest terms, and d = 0 is one of the  *)
(* three non-finite values the code can produce by dividing by zero:       *)
(* n = 1 is Infinity, n = -1 is -Infinity and n = 0 is NaN.  Arithmetic on *)
(* finite values is exact (IEEE rounding is not modelled), arithmetic on   *)
(* non-finite values follows IEEE 754 as JavaScript does.  null is a       *)
(* separate value.                                                         *)
(***************************************************************************)
EXTENDS Integers, Sequences, FiniteSets, TLC

VARIABLES
    call,           \* kernel: the pending call (function name and arguments)
    ret,            \* kernel: the value the call returned
    pc,             \* getStockData: position of the request
    req,            \* getStockData: symbol, interval, candidates failed and
                    \* the identifiers queried so far
    mainResponse,   \* getStockData: the response fetchRawData resolved to
    normalized,     \* getStockData: processYahooResult's output (history)
    processedData,  \* getStockData: the bar sequence being transformed
    resampled,      \* getStockData: the bars after resampling (history)
    dailyData,      \* getStockData: the daily bars of the close correction
    aux,            \* getStockData: what each auxiliary fetch answered, the
                    \* data_id FinMind was asked for, and the host's UTC
                    \* offset once a Date setter has used it
    result,         \* getStockData: the value returned to the caller
    app             \* App: its React state and the fetchData calls in flight

vars == <<call, ret, pc, req, mainResponse, normalized, processedData, resampled,
          dailyData, aux, result, app>>
kernelVars == <<call, ret>>
appVars == <<app>>
serviceVars == <<pc, req, mainResponse, normalized, processedData, resampled,
                 dailyData, aux, result>>

-----------------------------------------------------------------------------
(* JavaScript numbers *)

Abs(x) == IF x < 0 THEN -x ELSE x

RECURSIVE GCD(_, _)
GCD(a, b) == IF b = 0 THEN a ELSE GCD(b, a % b)

\* the fraction n/d (d # 0) in lowest terms with a positive denominator
Frac(n, d) ==
    LET g == GCD(Abs(n), Abs(d))
        s == IF d < 0 THEN -1 ELSE 1
    IN  [n |-> (s * n) \div g, d |-> (s * d) \div g]

Num(i) == [n |-> i, d |-> 1]
NaN == [n |-> 0, d |-> 0]
PosInf == [n |-> 1, d |-> 0]
NegInf == [n |-> -1, d |-> 0]
Null == [n |-> 0, d |-> -1]

IsNull(x) == x.d = -1
IsNaN(x) == x.d = 0 /\ x.n = 0
IsFinite(x) == x.d > 0
Sign(x) == IF x.n > 0 THEN 1 ELSE IF x.n < 0 THEN -1 ELSE 0

JNeg(a) == [n |-> -a.n, d |-> a.d]

JAdd(a, b) ==
    IF IsNaN(a) \/ IsNaN(b) THEN NaN
    ELSE IF a.d = 0 /\ b.d = 0 THEN (IF a.n = b.n THEN a ELSE NaN)
    ELSE IF a.d = 0 THEN a
    ELSE IF b.d = 0 THEN b
    ELSE Frac(a.n * b.d + b.n * a.d, a.d * b.d)

JSub(a, b) == JAdd(a, JNeg(b))

JMul(a, b) ==
    IF IsNaN(a) \/ IsNaN(b) THEN NaN
    ELSE IF a.d = 0 \/ b.d = 0
         THEN (IF Sign(a) * Sign(b) = 0 THEN NaN
               ELSE [n |-> Sign(a) * Sign(b), d |-> 0])
    ELSE Frac(a.n * b.n, a.d * b.d)

JDiv(a, b) ==
    IF IsNaN(a) \/ IsNaN(b) THEN NaN
    ELSE IF a.d = 0 /\ b.d = 0 THEN NaN
    ELSE IF a.d = 0 THEN [n |-> Sign(a) * (IF b.n < 0 THEN -1 ELSE 1), d |-> 0]
    ELSE IF b.d = 0 THEN Num(0)
    ELSE IF b.n = 0 THEN [n |-> Sign(a), d |-> 0]
    ELSE Frac(a.n * b.d, a.d * b.n)

\* a < b, false as soon as one side is NaN
JLt(a, b) ==
    IF IsNaN(a) \/ IsNaN(b) THEN FALSE
    ELSE IF a.d = 0 /\ b.d = 0 THEN a.n < b.n
    ELSE IF a.d = 0 THEN a.n < 0
    ELSE IF b.d = 0 THEN b.n > 0
    ELSE a.n * b.d < b.n * a.d

JLe(a, b) == (~IsNaN(a) /\ ~IsNaN(b)) /\ ~JLt(b, a)

\* Math.max / Math.min of two numbers
JMax(a, b) == IF IsNaN(a) \/ IsNaN(b) THEN NaN ELSE IF JLt(a, b) THEN b ELSE a
JMin(a, b) == IF IsNaN(a) \/ IsNaN(b) THEN NaN ELSE IF JLt(b, a) THEN b ELSE a

\* code arrays are 0-indexed
At(s, i) == s[i + 1]
Fill(len, v) == [i \in 1..len |-> v]
\* Array.prototype.slice(from, to), clamped as JavaScript clamps it
Slice(s, from, to) ==
    LET f == IF from < 0 THEN 0 ELSE from
        t == IF to > Len(s) THEN Len(s) ELSE to
    IN  IF t <= f THEN <<>> ELSE [i \in 1..(t - f) |-> s[f + i]]

-----------------------------------------------------------------------------
(* Numeric kernel: src/utils/math.ts *)

\* one iteration of lines 13-16
SMAStep(data, period, st, i) ==
    LET s2 == JAdd(st.sum, JSub(At(data, i), At(data, i - period)))
    IN  [sum |-> s2, sma |-> [st.sma EXCEPT ![i + 1] = JDiv(s2, Num(period))]]

\* the iteration whose running sum never drops the outgoing value
SMAStepNoDrop(data, period, st, i) ==
    LET s2 == JAdd(st.sum, At(data, i))
    IN  [sum |-> s2, sma |-> [st.sma EXCEPT ![i + 1] = JDiv(s2, Num(period))]]

\* one iteration of lines 35-38
EMAStep(data, k, st, i) ==
    LET e2 == JAdd(JMul(At(data, i), k), JMul(st.currentEma, JSub(Num(1), k)))
    IN  [currentEma |-> e2, ema |-> [st.ema EXCEPT ![i + 1] = e2]]

\* one iteration of lines 50-54
RSIInitStep(closePrices, st, i) ==
    LET diff == JSub(At(closePrices, i), At(closePrices, i - 1))
    IN  IF JLe(Num(0), diff)
        THEN [gains |-> JAdd(st.gains, diff), losses |-> st.losses]
        ELSE [gains |-> st.gains, losses |-> JSub(st.losses, diff)]

\* the iteration that counts a rise as a loss and a fall as a gain
RSIStepSignFlipped(closePrices, period, st, i) ==
    LET diff == JSub(At(closePrices, i), At(closePrices, i - 1))
        currentGain == IF JLt(diff, Num(0)) THEN JNeg(diff) ELSE Num(0)
        currentLoss == IF JLt(Num(0), diff) THEN diff ELSE Num(0)
        g2 == JDiv(JAdd(JMul(st.avgGain, Num(period - 1)), currentGain), Num(period))
        l2 == JDiv(JAdd(JMul(st.avgLoss, Num(period - 1)), currentLoss), Num(period))
        v  == IF l2 = Num(0) THEN Num(100)
              ELSE JSub(Num(100), JDiv(Num(100), JAdd(Num(1), JDiv(g2, l2))))
    IN  [avgGain |-> g2, avgLoss |-> l2,
         tr |-> [rsiArray |-> [st.tr.rsiArray EXCEPT ![i + 1] = v],
                 avgLoss  |-> [st.tr.avgLoss EXCEPT ![i + 1] = l2]]]

\* the rs formula of lines 59 and 73-74: 100 - (100 / (1 + avgGain / avgLoss))
RSFormula(avgGain, avgLoss) ==
    JSub(Num(100), JDiv(Num(100), JAdd(Num(1), JDiv(avgGain, avgLoss))))

\* one iteration of lines 62-76
RSIStep(closePrices, period, st, i) ==
    LET diff == JSub(At(closePrices, i), At(closePrices, i - 1))
        currentGain == IF JLt(Num(0), diff) THEN diff ELSE Num(0)
        currentLoss == IF JLt(diff, Num(0)) THEN JNeg(diff) ELSE Num(0)
        g2 == JDiv(JAdd(JMul(st.avgGain, Num(period - 1)), currentGain), Num(period))
        l2 == JDiv(JAdd(JMul(st.avgLoss, Num(period - 1)), currentLoss), Num(period))
        v  == IF l2 = Num(0) THEN Num(100) ELSE RSFormula(g2, l2)
    IN  [avgGain |-> g2, avgLoss |-> l2,
         tr |-> [rsiArray |-> [st.tr.rsiArray EXCEPT ![i + 1] = v],
                 avgLoss  |-> [st.tr.avgLoss EXCEPT ![i + 1] = l2]]]

\* Math.min(...xs) and Math.max(...xs)
RECURSIVE MinOf(_)
MinOf(xs) == IF xs = <<>> THEN PosInf ELSE JMin(Head(xs), MinOf(Tail(xs)))
RECURSIVE MaxOf(_)
MaxOf(xs) == IF xs = <<>> THEN NegInf ELSE JMax(Head(xs), MaxOf(Tail(xs)))

\* the raw stochastic value without the zero-range guard
RSVNoGuard(highs, lows, closes, period, i) ==
    LET minLow == MinOf(Slice(lows, i - period + 1, i + 1))
        maxHigh == MaxOf(Slice(highs, i - period + 1, i + 1))
    IN  JMul(JDiv(JSub(At(closes, i), minLow), JSub(maxHigh, minLow)), Num(100))

\* the raw stochastic value of lines 128-136
RSV(highs, lows, closes, period, i) ==
    LET minLow == MinOf(Slice(lows, i - period + 1, i + 1))
        maxHigh == MaxOf(Slice(highs, i - period + 1, i + 1))
    IN  IF maxHigh # minLow
        THEN JMul(JDiv(JSub(At(closes, i), minLow), JSub(maxHigh, minLow)), Num(100))
        ELSE Num(50)

\* one iteration of lines 127-145
KDJStep(highs, lows, closes, period, kdj, i) ==
    LET rsv == RSV(highs, lows, closes, period, i)
        prevK == IF i > 0 THEN At(kdj.K, i - 1) ELSE Num(50)
        prevD == IF i > 0 THEN At(kdj.D, i - 1) ELSE Num(50)
        k == JAdd(JMul(Frac(2, 3), prevK), JMul(Frac(1, 3), rsv))
        d == JAdd(JMul(Frac(2, 3), prevD), JMul(Frac(1, 3), k))
        j == JSub(JMul(Num(3), k), JMul(Num(2), d))
    IN  [K |-> [kdj.K EXCEPT ![i + 1] = k],
         D |-> [kdj.D EXCEPT ![i + 1] = d],
         J |-> [kdj.J EXCEPT ![i + 1] = j]]

\* The loops below run their iterations in order, the index range split in
\* halves: the state after [from, to) is the state after [mid, to) started
\* from the state after [from, mid).

\* the loop "for (i = from; i < to; i++) sum += data[i]"
RECURSIVE SumLoop(_, _, _, _)
SumLoop(data, from, to, sum) ==
    IF from >= to THEN sum
    ELSE IF to - from = 1 THEN JAdd(sum, At(data, from))
    ELSE LET mid == (from + to) \div 2
             half == SumLoop(data, from, mid, sum)
         IN  IF half = half THEN SumLoop(data, mid, to, half) ELSE half

\* the loop of lines 13-16
RECURSIVE SMALoop(_, _, _, _, _)
SMALoop(data, period, st, from, to) ==
    IF from >= to THEN st
    ELSE IF to - from = 1 THEN SMAStep(data, period, st, from)
    ELSE LET mid == (from + to) \div 2
             half == SMALoop(data, period, st, from, mid)
         IN  IF half = half THEN SMALoop(data, period, half, mid, to) ELSE half

RECURSIVE SMALoopNoDrop(_, _, _, _, _)
SMALoopNoDrop(data, period, st, from, to) ==
    IF from >= to THEN st
    ELSE IF to - from = 1 THEN SMAStepNoDrop(data, period, st, from)
    ELSE LET mid == (from + to) \div 2
             half == SMALoopNoDrop(data, period, st, from, mid)
         IN  IF half = half THEN SMALoopNoDrop(data, period, half, mid, to) ELSE half

calculateSMANoDrop(data, period) ==
    IF Len(data) < period THEN Fill(Len(data), Null)
    ELSE LET sum == SumLoop(data, 0, period, Num(0))
             sma == [Fill(Len(data), Null) EXCEPT ![period] = JDiv(sum, Num(period))]
         IN  SMALoopNoDrop(data, period, [sum |-> sum, sma |-> sma],
                           period, Len(data)).sma

calculateSMA(data, period) ==
    IF Len(data) < period THEN Fill(Len(data), Null)
    ELSE LET sum == SumLoop(data, 0, period, Num(0))
             sma == [Fill(Len(data), Null) EXCEPT ![period] = JDiv(sum, Num(period))]
         IN  SMALoop(data, period, [sum |-> sum, sma |-> sma],
                     period, Len(data)).sma

\* the loop of lines 35-38
RECURSIVE EMALoop(_, _, _, _, _)
EMALoop(data, k, st, from, to) ==
    IF from >= to THEN st
    ELSE IF to - from = 1 THEN EMAStep(data, k, st, from)
    ELSE LET mid == (from + to) \div 2
             half == EMALoop(data, k, st, from, mid)
         IN  IF half = half THEN EMALoop(data, k, half, mid, to) ELSE half

\* calculateEMA with the smoothing factor 2/period instead of 2/(period+1)
calculateEMAWrongK(data, period) ==
    IF Len(data) < period THEN Fill(Len(data), Null)
    ELSE LET k == JDiv(Num(2), Num(period))
             sum == SumLoop(data, 0, period, Num(0))
             currentEma == JDiv(sum, Num(period))
             ema == [Fill(Len(data), Null) EXCEPT ![period] = currentEma]
         IN  EMALoop(data, k, [currentEma |-> currentEma, ema |-> ema],
                     period, Len(data)).ema

calculateEMA(data, period) ==
    IF Len(data) < period THEN Fill(Len(data), Null)
    ELSE LET k == JDiv(Num(2), Num(period + 1))
             sum == SumLoop(data, 0, period, Num(0))
             currentEma == JDiv(sum, Num(period))
             ema == [Fill(Len(data), Null) EXCEPT ![period] = currentEma]
         IN  EMALoop(data, k, [currentEma |-> currentEma, ema |-> ema],
                     period, Len(data)).ema

\* the first loop of calculateRSI: gains and losses over deltas 1..period
RECURSIVE RSIInitLoop(_, _, _, _)
RSIInitLoop(closePrices, st, from, to) ==
    IF from >= to THEN st
    ELSE IF to - from = 1 THEN RSIInitStep(closePrices, st, from)
    ELSE LET mid == (from + to) \div 2
             half == RSIInitLoop(closePrices, st, from, mid)
         IN  IF half = half THEN RSIInitLoop(closePrices, half, mid, to) ELSE half

\* Wilder's smoothing loop; tr carries rsiArray and, per index, the avgLoss
\* the value was computed from
RECURSIVE RSILoop(_, _, _, _, _)
RSILoop(closePrices, period, st, from, to) ==
    IF from >= to THEN st
    ELSE IF to - from = 1 THEN RSIStep(closePrices, period, st, from)
    ELSE LET mid == (from + to) \div 2
             half == RSILoop(closePrices, period, st, from, mid)
         IN  IF half = half THEN RSILoop(closePrices, period, half, mid, to) ELSE half

\* calculateRSI with the average loss behind every produced value
RSITrace(closePrices, period) ==
    LET n == Len(closePrices)
        empty == [rsiArray |-> Fill(n, Null), avgLoss |-> Fill(n, Null)]
    IN  IF n < period + 1 THEN empty
        ELSE LET gl == RSIInitLoop(closePrices, [gains |-> Num(0), losses |-> Num(0)],
                                      1, period + 1)
                 avgGain == JDiv(gl.gains, Num(period))
                 avgLoss == JDiv(gl.losses, Num(period))
                 seed == [rsiArray |-> [empty.rsiArray EXCEPT
                                           ![period + 1] = RSFormula(avgGain, avgLoss)],
                          avgLoss  |-> [empty.avgLoss EXCEPT ![period + 1] = avgLoss]]
             IN  RSILoop(closePrices, period,
                         [avgGain |-> avgGain, avgLoss |-> avgLoss, tr |-> seed],
                         period + 1, n).tr

calculateRSI(closePrices, period) == RSITrace(closePrices, period).rsiArray

\* Array.prototype.findIndex(v => v !== null), -1 when there is none
FindFirstValid(s) ==
    IF \E i \in 1..Len(s) : ~IsNull(s[i])
    THEN (CHOOSE i \in 1..Len(s) :
              ~IsNull(s[i]) /\ \A j \in 1..(i - 1) : IsNull(s[j])) - 1
    ELSE -1

\* (a !== null && b !== null) ? a - b : null
SubOrNull(a, b) == IF ~IsNull(a) /\ ~IsNull(b) THEN JSub(a, b) ELSE Null

\* calculateMACD whose signal line is the EMA of the full-length macdLine with
\* its null positions read as 0
calculateMACDPadded(closePrices, fast, slow, signal) ==
    LET n == Len(closePrices)
        emaFast == calculateEMA(closePrices, fast)
        emaSlow == calculateEMA(closePrices, slow)
        macdLine == [i \in 1..n |-> SubOrNull(emaFast[i], emaSlow[i])]
        padded == [i \in 1..n |-> IF IsNull(macdLine[i]) THEN Num(0) ELSE macdLine[i]]
        signalLine == calculateEMA(padded, signal)
    IN  [macdLine |-> macdLine, signalLine |-> signalLine,
         histogram |-> [i \in 1..n |-> SubOrNull(macdLine[i], signalLine[i])]]

calculateMACD(closePrices, fast, slow, signal) ==
    LET n == Len(closePrices)
        emaFast == calculateEMA(closePrices, fast)
        emaSlow == calculateEMA(closePrices, slow)
        macdLine == [i \in 1..n |-> SubOrNull(emaFast[i], emaSlow[i])]
        validStartIndex == FindFirstValid(macdLine)
    IN  IF validStartIndex = -1
        THEN [macdLine |-> macdLine, signalLine |-> Fill(n, Null),
              histogram |-> Fill(n, Null)]
        ELSE LET validMacdValues == Slice(macdLine, validStartIndex, n)
                 signalLineValid == calculateEMA(validMacdValues, signal)
                 signalLine == [i \in 1..n |->
                                   IF i > validStartIndex
                                      /\ ~IsNull(signalLineValid[i - validStartIndex])
                                   THEN signalLineValid[i - validStartIndex]
                                   ELSE Null]
             IN  [macdLine |-> macdLine, signalLine |-> signalLine,
                  histogram |-> [i \in 1..n |-> SubOrNull(macdLine[i], signalLine[i])]]

\* the loop of lines 127-145
RECURSIVE KDJLoop(_, _, _, _, _, _, _)
KDJLoop(highs, lows, closes, period, st, from, to) ==
    IF from >= to THEN st
    ELSE IF to - from = 1 THEN KDJStep(highs, lows, closes, period, st, from)
    ELSE LET mid == (from + to) \div 2
             half == KDJLoop(highs, lows, closes, period, st, from, mid)
         IN  IF half = half THEN KDJLoop(highs, lows, closes, period, half, mid, to) ELSE half

calculateKDJ(highs, lows, closes, period) ==
    LET n == Len(closes)
    IN  KDJLoop(highs, lows, closes, period,
                [K |-> Fill(n, Num(50)), D |-> Fill(n, Num(50)), J |-> Fill(n, Num(50))],
                period - 1, n)


-----------------------------------------------------------------------------
(* Dates and time zones: Intl.DateTimeFormat and Date, by what they compute *)

\* the zone names Intl.DateTimeFormat accepts; any other name makes its
\* constructor throw a RangeError
ValidTimezone(timezone) == timezone \in {"Asia/Taipei", "America/New_York", "UTC"}

\* UTC offset in seconds of the zones the responses name (no DST in the
\* modelled weeks: January and February)
TzOffset(timezone) ==
    IF timezone = "Asia/Taipei" THEN 28800
    ELSE IF timezone = "UTC" THEN 0
    ELSE -18000

\* civil date <<year, month, day>> of a day number (days since 1970-01-01)
CivilFromDays(days) ==
    LET z == days + 719468
        era == z \div 146097
        doe == z - era * 146097
        yoe == (doe - doe \div 1460 + doe \div 36524 - doe \div 146096) \div 365
        doy == doe - (365 * yoe + yoe \div 4 - yoe \div 100)
        mp == (5 * doy + 2) \div 153
        d == doy - (153 * mp + 2) \div 5 + 1
        m == IF mp < 10 THEN mp + 3 ELSE mp - 9
        y == yoe + era * 400 + (IF m <= 2 THEN 1 ELSE 0)
    IN  <<y, m, d>>

\* the parts formatToParts yields for a timestamp in a zone
LocalParts(timestamp, timezone) ==
    LET local == timestamp + TzOffset(timezone)
        days == local \div 86400
        secs == local % 86400
        ymd == CivilFromDays(days)
    IN  [year |-> ymd[1], month |-> ymd[2], day |-> ymd[3], days |-> days,
         hour |-> secs \div 3600, minute |-> (secs % 3600) \div 60]

IsIntraday(interval) == interval \in {"15m", "60m"}

\* "MM-DD HH:MM" is <<month, day, hour, minute>>, "YYYY-MM-DD" is
\* <<year, month, day>>; the catch branch slices the UTC ISO string
formatExchangeDate(timestamp, timezone, interval) ==
    LET p == LocalParts(timestamp, IF ValidTimezone(timezone) THEN timezone ELSE "UTC")
    IN  IF IsIntraday(interval) THEN <<p.month, p.day, p.hour, p.minute>>
        ELSE <<p.year, p.month, p.day>>

\* (the catch branch, host-local hours, needs isTaiwan false and a zone name
\* Intl rejects: no response of the model combines the two)
getExchangeTime(timestamp, timezone, isTaiwan) ==
    LET effectiveTimezone == IF isTaiwan THEN "Asia/Taipei" ELSE timezone
        p == LocalParts(timestamp, effectiveTimezone)
    IN  [hour |-> p.hour, minute |-> p.minute, dateStr |-> <<p.year, p.month, p.day>>]

\* getPeriodStartDate has no try: a zone name Intl rejects makes it throw
PeriodStartThrows(timezone) == ~ValidTimezone(timezone)

\* week start (Monday) or month start of the local calendar date
getPeriodStartDate(timestamp, interval, timezone) ==
    LET p == LocalParts(timestamp, timezone)
        day == (p.days + 4) % 7               \* getUTCDay: 0 is Sunday
        diff == IF day = 0 THEN -6 ELSE 1 - day
    IN  IF interval = "1mo" THEN <<p.year, p.month, 1>>
        ELSE IF interval = "1wk" THEN CivilFromDays(p.days + diff)
        ELSE <<p.year, p.month, p.day>>

\* dateObj.setMinutes(30); dateObj.setSeconds(0) in the host's time zone,
\* whose UTC offset is hostOffset seconds
SetMinutes30(timestamp, hostOffset) ==
    LET local == timestamp + hostOffset
    IN  (local - (local % 3600) + 1800) - hostOffset

-----------------------------------------------------------------------------
(* Symbols: strings as sequences of characters *)

Str2330 == <<"2", "3", "3", "0">>
StrAAPL == <<"A", "A", "P", "L">>
SuffixTW == <<".", "T", "W">>
SuffixTWO == <<".", "T", "W", "O">>
Digits == {"0", "1", "2", "3", "4", "5", "6", "7", "8", "9"}

EndsWith(str, suffix) ==
    /\ Len(str) >= Len(suffix)
    /\ SubSeq(str, Len(str) - Len(suffix) + 1, Len(str)) = suffix

\* String.prototype.replace(pat, ''): the first occurrence is removed
ReplaceFirst(str, pat) ==
    LET hits == {i \in 1..(Len(str) - Len(pat) + 1) :
                    SubSeq(str, i, i + Len(pat) - 1) = pat}
    IN  IF hits = {} THEN str
        ELSE LET i == CHOOSE h \in hits : \A g \in hits : h <= g
             IN  SubSeq(str, 1, i - 1) \o SubSeq(str, i + Len(pat), Len(str))

\* Candidates with the .TWO identifier tried before the .TW one
CandidatesTWOFirst(symbol) ==
    LET looksLikeTaiwanStock == \E i \in 1..Len(symbol) : symbol[i] \in Digits
        target == ReplaceFirst(ReplaceFirst(symbol, SuffixTW), SuffixTWO)
    IN  IF looksLikeTaiwanStock
        THEN <<target \o SuffixTWO, target \o SuffixTW>>
        ELSE <<symbol, symbol \o SuffixTWO, symbol \o SuffixTW>>

\* the identifiers fetchRawData tries, in order
Candidates(symbol) ==
    LET looksLikeTaiwanStock == \E i \in 1..Len(symbol) : symbol[i] \in Digits
        target == ReplaceFirst(ReplaceFirst(symbol, SuffixTW), SuffixTWO)
    IN  IF looksLikeTaiwanStock
        THEN <<target \o SuffixTW, target \o SuffixTWO>>
        ELSE <<symbol, symbol \o SuffixTW, symbol \o SuffixTWO>>

IsTaiwanSymbol(metaSymbol) == EndsWith(metaSymbol, SuffixTW) \/ EndsWith(metaSymbol, SuffixTWO)

-----------------------------------------------------------------------------
(* Bar normalizer: processYahooResult *)

\* JavaScript truthiness of a number or null
Truthy(x) == ~IsNull(x) /\ ~IsNaN(x) /\ x # Num(0)

\* the test that looks at the close alone
IsCompleteCloseOnly(row) == ~IsNull(row.close)

\* line 238: the test a payload index passes to be kept
IsComplete(row) ==
    ~IsNull(row.close) /\ ~IsNull(row.open) /\ ~IsNull(row.high) /\ ~IsNull(row.low)

\* the object pushed onto cleanData for one payload index
CleanBar(row, meta, interval) ==
    LET isTaiwanStock == IsTaiwanSymbol(meta.symbol)
        t == getExchangeTime(row.timestamp, meta.timezone, isTaiwanStock)
        rawC == row.close
        adjC == IF Truthy(row.adjclose) THEN row.adjclose ELSE rawC
        ratio == IF rawC # Num(0) THEN JDiv(adjC, rawC) ELSE Num(1)
    IN  [date |-> formatExchangeDate(row.timestamp, meta.timezone,
                                     IF interval = "1wk" THEN "1d" ELSE interval),
         timestamp |-> row.timestamp,
         rawHour |-> t.hour,
         rawMinute |-> t.minute,
         rawDateStr |-> t.dateStr,
         open |-> row.open,
         high |-> row.high,
         low |-> row.low,
         close |-> rawC,
         volume |-> IF Truthy(row.volume) THEN row.volume ELSE Num(0),
         openAdj |-> JMul(row.open, ratio),
         highAdj |-> JMul(row.high, ratio),
         lowAdj |-> JMul(row.low, ratio),
         closeAdj |-> adjC,
         exchangeTimezone |-> meta.timezone]

processYahooResult(response, interval) ==
    IF response.shape # "rows" THEN <<>>
    ELSE LET kept == SelectSeq(response.rows, IsComplete)
         IN  [i \in 1..Len(kept) |-> CleanBar(kept[i], response, interval)]

-----------------------------------------------------------------------------
(* Period resampler *)

\* Array.prototype.sort((a, b) => a.timestamp - b.timestamp): stable
RECURSIVE SortByTimestamp(_)
SortByTimestamp(bars) ==
    IF bars = <<>> THEN <<>>
    ELSE LET n == Len(bars)
             init == SortByTimestamp(SubSeq(bars, 1, n - 1))
             x == bars[n]
             k == Cardinality({i \in 1..Len(init) : init[i].timestamp <= x.timestamp})
         IN  SubSeq(init, 1, k) \o <<x>> \o SubSeq(init, k + 1, Len(init))

\* index of the entry of an insertion-ordered Map with this key, 0 if none
KeyIndex(entries, key) ==
    IF \E i \in 1..Len(entries) : entries[i].date = key
    THEN CHOOSE i \in 1..Len(entries) : entries[i].date = key
    ELSE 0

\* MergeBar whose adjusted high is taken from the incoming bar alone
MergeBarItemHighAdj(existing, item, dateStr) ==
    LET ratio == IF item.close # Num(0) THEN JDiv(item.closeAdj, item.close) ELSE Num(1)
        isSeparateFragment ==
            LET diff == JSub(item.open, existing.open)
            IN  JLt(Frac(1, 10000), IF JLt(diff, Num(0)) THEN JNeg(diff) ELSE diff)
    IN  [item EXCEPT
            !.date = dateStr,
            !.open = existing.open,
            !.high = JMax(existing.high, item.high),
            !.low = JMin(existing.low, item.low),
            !.close = item.close,
            !.volume = IF isSeparateFragment THEN JAdd(existing.volume, item.volume)
                       ELSE item.volume,
            !.openAdj = JMul(existing.open, ratio),
            !.highAdj = JMul(item.high, ratio),
            !.lowAdj = JMul(JMin(existing.low, item.low), ratio),
            !.closeAdj = item.closeAdj]

\* MergeBar that keeps the bucket's first close instead of the incoming one
MergeBarKeepsClose(existing, item, dateStr) ==
    LET ratio == IF item.close # Num(0) THEN JDiv(item.closeAdj, item.close) ELSE Num(1)
        isSeparateFragment ==
            LET diff == JSub(item.open, existing.open)
            IN  JLt(Frac(1, 10000), IF JLt(diff, Num(0)) THEN JNeg(diff) ELSE diff)
    IN  [item EXCEPT
            !.date = dateStr,
            !.open = existing.open,
            !.high = JMax(existing.high, item.high),
            !.low = JMin(existing.low, item.low),
            !.close = existing.close,
            !.volume = IF isSeparateFragment THEN JAdd(existing.volume, item.volume)
                       ELSE item.volume,
            !.openAdj = JMul(existing.open, ratio),
            !.highAdj = JMul(JMax(existing.high, item.high), ratio),
            !.lowAdj = JMul(JMin(existing.low, item.low), ratio),
            !.closeAdj = item.closeAdj]

\* MergeBar that always adds the incoming volume to the bucket's
MergeBarAlwaysSums(existing, item, dateStr) ==
    LET ratio == IF item.close # Num(0) THEN JDiv(item.closeAdj, item.close) ELSE Num(1)
    IN  [item EXCEPT
            !.date = dateStr,
            !.open = existing.open,
            !.high = JMax(existing.high, item.high),
            !.low = JMin(existing.low, item.low),
            !.close = item.close,
            !.volume = JAdd(existing.volume, item.volume),
            !.openAdj = JMul(existing.open, ratio),
            !.highAdj = JMul(JMax(existing.high, item.high), ratio),
            !.lowAdj = JMul(JMin(existing.low, item.low), ratio),
            !.closeAdj = item.closeAdj]

\* the object stored when an item joins an existing weekly/monthly bucket
MergeBar(existing, item, dateStr) ==
    LET ratio == IF item.close # Num(0) THEN JDiv(item.closeAdj, item.close) ELSE Num(1)
        isSeparateFragment ==
            LET diff == JSub(item.open, existing.open)
            IN  JLt(Frac(1, 10000), IF JLt(diff, Num(0)) THEN JNeg(diff) ELSE diff)
    IN  [item EXCEPT
            !.date = dateStr,
            !.open = existing.open,
            !.high = JMax(existing.high, item.high),
            !.low = JMin(existing.low, item.low),
            !.close = item.close,
            !.volume = IF isSeparateFragment THEN JAdd(existing.volume, item.volume)
                       ELSE item.volume,
            !.openAdj = JMul(existing.open, ratio),
            !.highAdj = JMul(JMax(existing.high, item.high), ratio),
            !.lowAdj = JMul(JMin(existing.low, item.low), ratio),
            !.closeAdj = item.closeAdj]

\* the forEach of lines 299-325 over items i..; periodMap in insertion order
RECURSIVE MergeLoop(_, _, _, _, _)
MergeLoop(items, i, interval, timezone, periodMap) ==
    IF i > Len(items) THEN periodMap
    ELSE LET item == items[i]
             dateStr == getPeriodStartDate(item.timestamp, interval, timezone)
             at == KeyIndex(periodMap, dateStr)
         IN  MergeLoop(items, i + 1, interval, timezone,
                 IF at = 0 THEN Append(periodMap, [item EXCEPT !.date = dateStr])
                 ELSE [periodMap EXCEPT ![at] = MergeBar(periodMap[at], item, dateStr)])

MergePeriods(items, interval, metaTimezone) ==
    LET timezone == IF metaTimezone # "" THEN metaTimezone ELSE "Asia/Taipei"
    IN  SortByTimestamp(MergeLoop(items, 1, interval, timezone, <<>>))

\* first-win insertion into the uniqueMap of the re-bucketing loops
PutFirst(uniqueMap, d, shiftedTs, formattedDate) ==
    IF KeyIndex(uniqueMap, formattedDate) # 0 THEN uniqueMap
    ELSE Append(uniqueMap, [d EXCEPT !.timestamp = shiftedTs, !.date = formattedDate])

\* shiftedTs of lines 335-350, for a bar of raw hour 9..13
ShiftedTs60(d, hostOffset) ==
    IF d.rawHour >= 9 /\ d.rawHour <= 12 THEN d.timestamp + 3600
    ELSE SetMinutes30(d.timestamp, hostOffset)

\* the forEach of lines 334-367
RECURSIVE Shift60Loop(_, _, _, _)
Shift60Loop(items, i, hostOffset, uniqueMap) ==
    IF i > Len(items) THEN uniqueMap
    ELSE LET d == items[i]
             shiftedTs == ShiftedTs60(d, hostOffset)
         IN  Shift60Loop(items, i + 1, hostOffset,
                 IF ~(d.rawHour >= 9 /\ d.rawHour <= 13) THEN uniqueMap
                 ELSE PutFirst(uniqueMap, d, shiftedTs,
                               formatExchangeDate(shiftedTs, d.exchangeTimezone, "60m")))

Rebucket60m(items, hostOffset) ==
    SortByTimestamp(Shift60Loop(items, 1, hostOffset, <<>>))

\* shiftedTs of lines 383-397
ShiftedTs15(d, hostOffset) ==
    IF d.rawHour = 13 /\ d.rawMinute >= 30
    THEN SetMinutes30(d.timestamp, hostOffset)
    ELSE d.timestamp + 15 * 60

\* the forEach of lines 381-418
RECURSIVE Shift15Loop(_, _, _, _)
Shift15Loop(items, i, hostOffset, uniqueMap) ==
    IF i > Len(items) THEN uniqueMap
    ELSE LET d == items[i]
             shiftedTs == ShiftedTs15(d, hostOffset)
             tTime == getExchangeTime(shiftedTs, d.exchangeTimezone, TRUE)
             tVal == tTime.hour * 100 + tTime.minute
         IN  Shift15Loop(items, i + 1, hostOffset,
                 IF tVal < 915 \/ tVal > 1330 THEN uniqueMap
                 ELSE PutFirst(uniqueMap, d, shiftedTs,
                               formatExchangeDate(shiftedTs, d.exchangeTimezone, "15m")))

Rebucket15m(items, hostOffset) ==
    SortByTimestamp(Shift15Loop(items, 1, hostOffset, <<>>))

\* dailyCloseMap.get(dateStr): the close of the last daily bar with that date,
\* Null for undefined
DailyClose(dailyBars, dateStr) ==
    LET hits == {i \in 1..Len(dailyBars) : dailyBars[i].rawDateStr = dateStr}
    IN  IF hits = {} THEN Null
        ELSE dailyBars[CHOOSE i \in hits : \A j \in hits : j <= i].close

\* the body of the forEach of lines 437-475 for one candle
CorrectCandle(candle, dailyBars) ==
    LET t == getExchangeTime(candle.timestamp, candle.exchangeTimezone, TRUE)
        correctClose == DailyClose(dailyBars, candle.rawDateStr)
    IN  IF ~(t.hour = 13 /\ t.minute = 30) THEN candle
        ELSE IF IsNull(correctClose) \/ correctClose = Num(0) THEN candle
        ELSE LET oldClose == candle.close
                 high == IF JLt(candle.high, correctClose) THEN correctClose ELSE candle.high
                 low == IF JLt(correctClose, candle.low) THEN correctClose ELSE candle.low
                 ratio == JDiv(candle.closeAdj, oldClose)
             IN  IF oldClose = Num(0)
                 THEN [candle EXCEPT !.close = correctClose, !.high = high, !.low = low]
                 ELSE [candle EXCEPT
                          !.close = correctClose, !.high = high, !.low = low,
                          !.closeAdj = JMul(correctClose, ratio),
                          !.highAdj = IF high # candle.high THEN JMul(high, ratio) ELSE @,
                          !.lowAdj = IF low # candle.low THEN JMul(low, ratio) ELSE @]

CorrectCloses(candles, dailyBars) ==
    [i \in 1..Len(candles) |-> CorrectCandle(candles[i], dailyBars)]

-----------------------------------------------------------------------------
(* Indicator enricher: lines 481-605 of getStockData *)

\* the JavaScript value undefined
Undefined == [n |-> 0, d |-> -2]
IsUndefined(x) == x = Undefined

\* x ?? undefined: only null becomes undefined
OrUndefinedNullish(x) == IF IsNull(x) THEN Undefined ELSE x

\* x || undefined
OrUndefined(x) == IF Truthy(x) THEN x ELSE Undefined

\* x || 0
OrZero(x) == IF Truthy(x) THEN x ELSE Num(0)

\* a relational operand converted to a number: null is 0
ToNumber(x) == IF IsNull(x) THEN Num(0) ELSE x

\* getDir of lines 553-556; current and prev are elements of a kernel array
getDir(current, prev) ==
    IF IsUndefined(current) \/ IsUndefined(prev) THEN "flat"
    ELSE IF JLt(ToNumber(prev), ToNumber(current)) THEN "up"
    ELSE IF JLt(ToNumber(current), ToNumber(prev)) THEN "down"
    ELSE "flat"

\* the forEach in which a record replaces the net of its date and class
RECURSIVE ChipLoopOverwrites(_, _, _)
ChipLoopOverwrites(institutionalData, i, chipMap) ==
    IF i > Len(institutionalData) THEN chipMap
    ELSE LET item == institutionalData[i]
             net == JSub(OrZero(item.buy), OrZero(item.sell))
             withDate == IF KeyIndex(chipMap, item.date) # 0 THEN chipMap
                         ELSE Append(chipMap, [date |-> item.date,
                                               foreign |-> Num(0), trust |-> Num(0)])
             at == KeyIndex(withDate, item.date)
         IN  ChipLoopOverwrites(institutionalData, i + 1,
                 IF item.name = "Foreign_Investor"
                 THEN [withDate EXCEPT ![at].foreign = net]
                 ELSE IF item.name = "Investment_Trust"
                 THEN [withDate EXCEPT ![at].trust = net]
                 ELSE withDate)

\* the forEach of lines 502-509 over items i..; chipMap in insertion order
RECURSIVE ChipLoop(_, _, _)
ChipLoop(institutionalData, i, chipMap) ==
    IF i > Len(institutionalData) THEN chipMap
    ELSE LET item == institutionalData[i]
             net == JSub(OrZero(item.buy), OrZero(item.sell))
             withDate == IF KeyIndex(chipMap, item.date) # 0 THEN chipMap
                         ELSE Append(chipMap, [date |-> item.date,
                                               foreign |-> Num(0), trust |-> Num(0)])
             at == KeyIndex(withDate, item.date)
         IN  ChipLoop(institutionalData, i + 1,
                 IF item.name = "Foreign_Investor"
                 THEN [withDate EXCEPT ![at].foreign = JAdd(@, net)]
                 ELSE IF item.name = "Investment_Trust"
                 THEN [withDate EXCEPT ![at].trust = JAdd(@, net)]
                 ELSE withDate)

\* volumeMap.has(date) and volumeMap.get(date): the last item of a date wins
VolumeMapHas(finMindPriceData, date) ==
    \E i \in 1..Len(finMindPriceData) : finMindPriceData[i].date = date
VolumeMapGet(finMindPriceData, date) ==
    LET hits == {i \in 1..Len(finMindPriceData) : finMindPriceData[i].date = date}
    IN  finMindPriceData[CHOOSE i \in hits : \A j \in hits : j <= i].Trading_Volume

\* lines 516-527: the bar with its volume replaced and its flows attached
FinalBar(d, chipMap, finMindPriceData, shouldFetchFinMindChips) ==
    LET at == KeyIndex(chipMap, d.date)
        chips == IF at # 0 THEN chipMap[at]
                 ELSE [date |-> d.date, foreign |-> Num(0), trust |-> Num(0)]
        volume == IF shouldFetchFinMindChips /\ VolumeMapHas(finMindPriceData, d.date)
                  THEN VolumeMapGet(finMindPriceData, d.date)
                  ELSE d.volume
    IN  [foreignBuySell |-> chips.foreign, investmentTrustBuySell |-> chips.trust]
        @@ [d EXCEPT !.volume = volume]

FinalData(bars, institutionalData, finMindPriceData, shouldFetchFinMindChips) ==
    LET chipMap == ChipLoop(institutionalData, 1, <<>>)
    IN  [i \in 1..Len(bars) |->
            FinalBar(bars[i], chipMap, finMindPriceData, shouldFetchFinMindChips)]

\* lines 529-550: the kernel arrays of both price bases
Indicators(finalData) ==
    LET rawCloses == [i \in 1..Len(finalData) |-> finalData[i].close]
        rawHighs == [i \in 1..Len(finalData) |-> finalData[i].high]
        rawLows == [i \in 1..Len(finalData) |-> finalData[i].low]
        adjCloses == [i \in 1..Len(finalData) |-> finalData[i].closeAdj]
    IN  [ma5 |-> calculateSMA(rawCloses, 5),
         ma10 |-> calculateSMA(rawCloses, 10),
         ma20 |-> calculateSMA(rawCloses, 20),
         ma60 |-> calculateSMA(rawCloses, 60),
         rsi |-> calculateRSI(rawCloses, 14),
         macd |-> calculateMACD(rawCloses, 12, 26, 9),
         kdj |-> calculateKDJ(rawHighs, rawLows, rawCloses, 9),
         ma5Adj |-> calculateSMA(adjCloses, 5),
         ma10Adj |-> calculateSMA(adjCloses, 10),
         ma20Adj |-> calculateSMA(adjCloses, 20),
         ma60Adj |-> calculateSMA(adjCloses, 60),
         rsiAdj |-> calculateRSI(adjCloses, 14),
         macdDataAdj |-> calculateMACD(adjCloses, 12, 26, 9)]

\* direction flag of one moving average at index i
DirAt(ma, i) == IF i > 0 THEN getDir(At(ma, i), At(ma, i - 1)) ELSE "flat"

\* the reference price that is the bar's own close at index 0
PrevCloseOwnClose(finalData, i) ==
    IF i > 0 THEN At(finalData, i - 1).close ELSE At(finalData, i).close

\* line 558: the reference price of the change at index i
PrevClose(finalData, i) ==
    IF i > 0 THEN At(finalData, i - 1).close ELSE At(finalData, i).open

\* lines 552-590: the returned object of index i
FullBar(finalData, ind, i) ==
    LET d == At(finalData, i)
        prevClose == PrevClose(finalData, i)
        priceChange == JSub(d.close, prevClose)
    IN  [ma5 |-> OrUndefined(At(ind.ma5, i)),
         ma10 |-> OrUndefined(At(ind.ma10, i)),
         ma20 |-> OrUndefined(At(ind.ma20, i)),
         ma60 |-> OrUndefined(At(ind.ma60, i)),
         ma5Dir |-> DirAt(ind.ma5, i),
         ma10Dir |-> DirAt(ind.ma10, i),
         ma20Dir |-> DirAt(ind.ma20, i),
         ma60Dir |-> DirAt(ind.ma60, i),
         rsi |-> OrUndefined(At(ind.rsi, i)),
         macd |-> OrUndefined(At(ind.macd.macdLine, i)),
         macdSignal |-> OrUndefined(At(ind.macd.signalLine, i)),
         macdHist |-> OrUndefined(At(ind.macd.histogram, i)),
         k |-> At(ind.kdj.K, i),
         d |-> At(ind.kdj.D, i),
         j |-> At(ind.kdj.J, i),
         ma5Adj |-> OrUndefined(At(ind.ma5Adj, i)),
         ma10Adj |-> OrUndefined(At(ind.ma10Adj, i)),
         ma20Adj |-> OrUndefined(At(ind.ma20Adj, i)),
         ma60Adj |-> OrUndefined(At(ind.ma60Adj, i)),
         rsiAdj |-> OrUndefined(At(ind.rsiAdj, i)),
         macdAdj |-> OrUndefined(At(ind.macdDataAdj.macdLine, i)),
         macdSignalAdj |-> OrUndefined(At(ind.macdDataAdj.signalLine, i)),
         macdHistAdj |-> OrUndefined(At(ind.macdDataAdj.histogram, i)),
         priceChange |-> priceChange,
         priceChangePercent |-> JMul(JDiv(priceChange, prevClose), Num(100))]
        @@ d

\* the kernel arrays are computed once (lines 529-550), then read by the map
\* of lines 552-590
FullProcessedData(finalData) ==
    CHOOSE fullProcessedData \in
        {[i \in 1..Len(finalData) |-> FullBar(finalData, ind, i - 1)] :
             ind \in {Indicators(finalData)}} : TRUE

\* lines 592-595: names are character sequences, <<>> for a null or absent one
DisplayName(meta, isTaiwanStock, taiwanStockName) ==
    IF isTaiwanStock /\ taiwanStockName # <<>> THEN taiwanStockName
    ELSE IF meta.longName # <<>> THEN meta.longName
    ELSE IF meta.shortName # <<>> THEN meta.shortName
    ELSE meta.symbol

-----------------------------------------------------------------------------
(* Bounds of the kernel inputs *)

MaxLen == 4         \* longest input series
MaxVal == 2         \* input values are 0..MaxVal
MaxPeriod == 3      \* periods are 1..MaxPeriod
MaxSignal == 2      \* MACD signal periods are 1..MaxSignal
MaxKdjLen == 3      \* longest KDJ input
MaxRun == 59        \* longest flat run before a final close

SeqsUpTo(S, n) == UNION {[1..k -> S] : k \in 0..n}
Series == SeqsUpTo({Num(v) : v \in 0..MaxVal}, MaxLen)
\* the <<high, low, close>> candles of a KDJ input: flat ones, and ones that
\* close at the low, inside the range and at the high
KdjCandles == {<<1, 1, 1>>, <<2, 2, 2>>, <<2, 1, 1>>, <<3, 1, 2>>, <<2, 1, 2>>}
KdjSeries == SeqsUpTo(KdjCandles, MaxKdjLen)
KdjColumn(candles, j) == [i \in 1..Len(candles) |-> Num(candles[i][j])]

NoCall == [fn |-> "none", data |-> <<>>, highs |-> <<>>, lows |-> <<>>,
           period |-> 0, fast |-> 0, slow |-> 0, signal |-> 0]
NoRet == [done |-> FALSE, val |-> <<>>]

\* the calls the kernel specification makes
SeriesCalls ==
    {[NoCall EXCEPT !.fn = f, !.data = d, !.period = p] :
        f \in {"SMA", "EMA", "RSI"}, d \in Series, p \in 1..MaxPeriod}
MACDCalls ==
    {[NoCall EXCEPT !.fn = "MACD", !.data = d, !.fast = c[1], !.slow = c[2],
                    !.signal = sg] :
        d \in Series, sg \in 1..MaxSignal,
        c \in {x \in (1..MaxPeriod) \X (1..MaxPeriod) : x[1] <= x[2]}}
KDJCalls ==
    {[NoCall EXCEPT !.fn = "KDJ", !.highs = KdjColumn(t, 1),
                    !.lows = KdjColumn(t, 2), !.data = KdjColumn(t, 3),
                    !.period = p] :
        p \in 1..MaxPeriod, t \in KdjSeries}

\* RSI-14 of a run of up to MaxRun closes of 10 followed by one close of 9,
\* 10 or 11
FlatRunCalls ==
    {[NoCall EXCEPT !.fn = "RSI", !.data = Fill(n, Num(10)) \o <<Num(v)>>,
                    !.period = 14] :
        n \in 0..MaxRun, v \in {9, 10, 11}}

-----------------------------------------------------------------------------
(* getStockData: state before any request *)

NoReq == [symbol |-> <<>>, interval |-> "none", tried |-> 0, queried |-> <<>>]
NoResponse == [kind |-> "none", symbol |-> <<>>, timezone |-> "", longName |-> <<>>,
               shortName |-> <<>>, shape |-> "", rows |-> <<>>]
NoResult == [status |-> "none", symbol |-> <<>>, name |-> <<>>, data |-> <<>>]

\* the answer of a FinMind endpoint: kind is "none" (not asked), "threw"
\* (fetch or res.json() threw) or "json" (a body with msg and data)
NoReply == [kind |-> "none", msg |-> "", data |-> <<>>]
NoAux == [daily |-> "none", info |-> NoReply, institutional |-> NoReply,
          price |-> NoReply, host |-> -1, dataId |-> <<>>]

\* no series on display
NoData == [symbol |-> <<>>, interval |-> "none"]

\* no analysis requested
NoAnalysis == [symbol |-> <<>>, data |-> NoData]

\* the useState initial values of App (types.ts:542-564), before its first
\* effect has run; inFlight holds the fetchData calls awaiting getStockData,
\* issued counts the calls made and writer is the call whose completion set
\* data and info last (history); analysisInFlight holds the handleRunAnalysis
\* calls awaiting analyzeStockWithGemini and analysisOf the arguments of the
\* call whose completion set analysis last (history)
AppInitial ==
    [symbol |-> Str2330, interval |-> "1d", data |-> NoData, info |-> NoData,
     loading |-> FALSE, analyzing |-> FALSE, error |-> "", analysis |-> "",
     showAnalysisModal |-> FALSE,
     mounted |-> FALSE, inFlight |-> {}, issued |-> 0, writer |-> 0,
     analysisInFlight |-> {}, analysisOf |-> NoAnalysis]

ServiceIdle ==
    /\ pc = "idle"
    /\ req = NoReq
    /\ mainResponse = NoResponse
    /\ normalized = <<>>
    /\ processedData = <<>>
    /\ resampled = <<>>
    /\ dailyData = <<>>
    /\ aux = NoAux
    /\ result = NoResult

-----------------------------------------------------------------------------
(* Kernel specification: Init draws a call, one action per function *)

InitKernel ==
    /\ call \in SeriesCalls \cup MACDCalls \cup KDJCalls \cup FlatRunCalls
    /\ ret = NoRet
    /\ ServiceIdle
    /\ app = AppInitial

Return(v) ==
    /\ ~ret.done
    /\ ret' = [done |-> TRUE, val |-> v]
    /\ UNCHANGED <<call, serviceVars, appVars>>

CallSMA == call.fn = "SMA" /\ Return(calculateSMA(call.data, call.period))
CallEMA == call.fn = "EMA" /\ Return(calculateEMA(call.data, call.period))
CallRSI == call.fn = "RSI" /\ Return(calculateRSI(call.data, call.period))
CallMACD ==
    call.fn = "MACD" /\ Return(calculateMACD(call.data, call.fast, call.slow, call.signal))
CallKDJ ==
    call.fn = "KDJ" /\ Return(calculateKDJ(call.highs, call.lows, call.data, call.period))

NextKernel == CallSMA \/ CallEMA \/ CallRSI \/ CallMACD \/ CallKDJ

SpecKernel == InitKernel /\ [][NextKernel]_vars

Returned(f) == call.fn = f /\ ret.done

-----------------------------------------------------------------------------
(* Kernel properties *)

\* JavaScript ===
JEq(a, b) == ~IsNaN(a) /\ ~IsNaN(b) /\ a = b

\* s[from] + ... + s[to-1] (0-indexed), summed from the far end
RECURSIVE SeqSum(_, _, _)
SeqSum(s, from, to) ==
    IF to <= from THEN Num(0) ELSE JAdd(SeqSum(s, from, to - 1), At(s, to - 1))
Mean(s, from, to) == JDiv(SeqSum(s, from, to), Num(to - from))
Idx(s) == 0..(Len(s) - 1)

\* C4: calculateSMA(s, p) has the length of s, is null at every index < p-1
\* (all null when len(s) < p), is mean(s[0..p-1]) at index p-1, and at every
\* i >= p equals SMA[i-1] + (s[i] - s[i-p])/p, the mean of the last p inputs.
SMAContract ==
    Returned("SMA") =>
        LET s == call.data
            p == call.period
            r == ret.val
        IN  /\ Len(r) = Len(s)
            /\ \A i \in Idx(s) : (i < p - 1 \/ Len(s) < p) => IsNull(At(r, i))
            /\ Len(s) >= p => JEq(At(r, p - 1), Mean(s, 0, p))
            /\ \A i \in Idx(s) : i >= p =>
                  /\ JEq(At(r, i), JAdd(At(r, i - 1),
                            JDiv(JSub(At(s, i), At(s, i - p)), Num(p))))
                  /\ JEq(At(r, i), Mean(s, i - p + 1, i + 1))

SMAWitness ==
    /\ Returned("SMA")
    /\ call.period > 1
    /\ Len(call.data) > call.period
    /\ At(ret.val, call.period) # At(ret.val, call.period - 1)

IsConstant(s) == \A i, j \in 1..Len(s) : s[i] = s[j]

\* C5: calculateEMA(s, p) is null before index p-1, equals the SMA seed at
\* index p-1, follows ema[i] = s[i]*k + ema[i-1]*(1-k) with k = 2/(p+1)
\* afterwards, and on a constant series every defined value is that constant.
EMAContract ==
    Returned("EMA") =>
        LET s == call.data
            p == call.period
            r == ret.val
            k == JDiv(Num(2), Num(p + 1))
        IN  /\ Len(r) = Len(s)
            /\ \A i \in Idx(s) : i < p - 1 => IsNull(At(r, i))
            /\ Len(s) >= p => /\ JEq(At(r, p - 1), Mean(s, 0, p))
                              /\ At(r, p - 1) = At(calculateSMA(s, p), p - 1)
            /\ \A i \in Idx(s) : i >= p =>
                  JEq(At(r, i), JAdd(JMul(At(s, i), k),
                                     JMul(At(r, i - 1), JSub(Num(1), k))))
            /\ IsConstant(s) =>
                  \A i \in Idx(s) : ~IsNull(At(r, i)) => JEq(At(r, i), At(s, 0))

EMAWitness ==
    /\ Returned("EMA")
    /\ call.period > 1
    /\ Len(call.data) > call.period
    /\ ~IsConstant(call.data)
    /\ At(ret.val, call.period) # At(ret.val, call.period - 1)

\* C6: every non-null value calculateRSI produces is a number in [0, 100],
\* never NaN, at the seed index and at every later index.
RSIInRange ==
    Returned("RSI") =>
        \A i \in Idx(ret.val) :
            ~IsNull(At(ret.val, i)) =>
                /\ IsFinite(At(ret.val, i))
                /\ JLe(Num(0), At(ret.val, i))
                /\ JLe(At(ret.val, i), Num(100))

\* C7: wherever calculateRSI produces a value from an average loss of 0
\* (seed index included), that value is exactly 100.
RSIZeroLossIs100 ==
    Returned("RSI") =>
        LET tr == RSITrace(call.data, call.period)
        IN  \A i \in Idx(ret.val) :
                (~IsNull(At(ret.val, i)) /\ At(tr.avgLoss, i) = Num(0)) =>
                    JEq(At(ret.val, i), Num(100))


\* the call of the scenario: 60 closes, all 10 except the last, which is 11,
\* and RSI-14 has returned
FlatRunThenGain ==
    /\ Returned("RSI")
    /\ call.period = 14
    /\ Len(call.data) = 60
    /\ \A i \in 1..59 : call.data[i] = Num(10)
    /\ call.data[60] = Num(11)

\* C21 as stated: for 60 closes that are all 10 except the last, which is 11,
\* RSI-14 at the final index is finite and near but above 50 (above 50 and
\* closer to 50 than to 100).
RSINearAbove50 ==
    FlatRunThenGain =>
        /\ IsFinite(ret.val[60])
        /\ JLt(Num(50), ret.val[60])
        /\ JLt(ret.val[60], Num(75))

\* C21, amended: for those closes RSI-14 at the final index is exactly 100.
RSIAfterFlatRunIs100 ==
    FlatRunThenGain => ret.val[60] = Num(100)

\* RSI-14 of the 60 closes has returned, with values at the indices 14..59
RSIFlatRunWitness ==
    /\ FlatRunThenGain
    /\ \A i \in 15..60 : ~IsNull(ret.val[i])
    /\ \A i \in 1..14 : IsNull(ret.val[i])

\* C8: macdLine is EMA(fast) - EMA(slow) exactly where both are defined
\* (first at slow-1); signalLine is EMA(signal) of the defined macdLine values
\* only, re-indexed, so it starts at (first macdLine index) + signal - 1 with
\* the mean of the first `signal` macdLine values; histogram is macdLine -
\* signalLine where both are defined and null elsewhere.
MACDContract ==
    Returned("MACD") =>
        LET s == call.data
            n == Len(s)
            sg == call.signal
            ef == calculateEMA(s, call.fast)
            es == calculateEMA(s, call.slow)
            m == ret.val.macdLine
            sl == ret.val.signalLine
            h == ret.val.histogram
            v == call.slow - 1
            valid == Slice(m, v, n)
        IN  /\ Len(m) = n /\ Len(sl) = n /\ Len(h) = n
            /\ \A i \in Idx(s) :
                  /\ IsNull(At(m, i)) <=> i < v
                  /\ i >= v => JEq(At(m, i), JSub(At(ef, i), At(es, i)))
                  /\ IsNull(At(sl, i)) <=> i < v + sg - 1
                  /\ i = v + sg - 1 => JEq(At(sl, i), Mean(m, v, v + sg))
                  /\ i >= v + sg - 1 =>
                        /\ JEq(At(sl, i), At(calculateEMA(valid, sg), i - v))
                        /\ JEq(At(h, i), JSub(At(m, i), At(sl, i)))
                  /\ i < v + sg - 1 => IsNull(At(h, i))

MACDWitness ==
    /\ Returned("MACD")
    /\ call.fast < call.slow
    /\ call.signal > 1
    /\ Len(call.data) >= call.slow + call.signal
    /\ ~IsNull(At(ret.val.histogram, Len(call.data) - 1))
    /\ At(ret.val.histogram, Len(call.data) - 1) # Num(0)

KDJFlatWitness ==
    /\ Returned("KDJ")
    /\ Len(call.data) >= call.period
    /\ call.highs = call.lows
    /\ IsConstant(call.highs)
    /\ At(ret.val.K, Len(call.data) - 1) = Num(50)


-----------------------------------------------------------------------------
(* Inputs of the data service *)

MaxRows == 2        \* most rows in a price payload

Symbols == {Str2330, StrAAPL}
Intervals == {"1d", "1wk", "1mo", "60m", "15m"}

\* Fri 2024-01-26, Mon 2024-01-29 and Thu 2024-02-01, 09:00 in Taipei
DayTs == {1706230800, 1706490000, 1706749200}
\* Mon 2024-01-29 09:00, 13:00 and 13:25 in Taipei
Ts60 == {1706490000, 1706504400, 1706505900}
\* Mon 2024-01-29 09:00, 13:15 and 13:30 in Taipei
Ts15 == {1706490000, 1706505300, 1706506200}
TsFor(interval) ==
    IF interval = "60m" THEN Ts60 ELSE IF interval = "15m" THEN Ts15 ELSE DayTs

Quote(o, h, l, c, v, a) ==
    [open |-> o, high |-> h, low |-> l, close |-> c, volume |-> v, adjclose |-> a]

FlatQuote == Quote(Num(2), Num(2), Num(2), Num(2), Num(1), Null)

\* the quotes a payload row can carry: a flat bar, a flat bar with an
\* adjusted close, a rising bar with an adjusted close and no volume, and an
\* incomplete bar
Quotes ==
    { FlatQuote,
      Quote(Num(3), Num(3), Num(3), Num(3), Num(1), Num(1)),
      Quote(Num(2), Num(3), Num(2), Num(3), Null, Num(1)),
      Quote(Num(2), Num(2), Num(2), Null, Num(1), Null) }

Row(ts, q) ==
    [timestamp |-> ts, open |-> q.open, high |-> q.high, low |-> q.low,
     close |-> q.close, volume |-> q.volume, adjclose |-> q.adjclose]

RowSeqs(interval) ==
    SeqsUpTo({Row(ts, q) : ts \in TsFor(interval), q \in Quotes}, MaxRows)

\* payloads of the responses whose meta names a zone Intl rejects
InvalidZoneRowSeqs(interval) ==
    {<<>>} \cup {<<Row(ts, FlatQuote)>> : ts \in TsFor(interval)}

CandidateTimezone(cand) ==
    IF IsTaiwanSymbol(cand) THEN "Asia/Taipei" ELSE "America/New_York"

NameApple == <<"A", "p", "p", "l", "e">>
NameTSMC == <<"T", "S", "M", "C">>

\* meta.longName of a candidate's response; <<>> when the meta has none
LongNameOf(cand) == IF cand = StrAAPL THEN NameApple ELSE <<>>

Response(cand, timezone, shape, rows) ==
    [kind |-> "ok", symbol |-> cand, timezone |-> timezone,
     longName |-> LongNameOf(cand), shortName |-> <<>>, shape |-> shape, rows |-> rows]

\* payloads of the fallback candidates: at most one row
FallbackRowSeqs(interval) ==
    {<<>>} \cup {<<Row(ts, q)>> : ts \in TsFor(interval), q \in Quotes}

\* the responses queryYahoo returns without throwing; tried is the number of
\* candidates that failed before this one
OkResponses(cand, interval, tried) ==
    {Response(cand, CandidateTimezone(cand), sh, <<>>) : sh \in {"noTimestamp", "noClose"}}
    \cup
    {Response(cand, CandidateTimezone(cand), "rows", r) :
        r \in IF tried = 0 THEN RowSeqs(interval) ELSE FallbackRowSeqs(interval)}
    \cup
    (IF IsTaiwanSymbol(cand)
     THEN {Response(cand, "Invalid/Zone", "rows", r) : r \in InvalidZoneRowSeqs(interval)}
     ELSE {})

\* the ways queryYahoo throws: !res.ok, chart.error, result null, result []
FailKinds == {"httpError", "chartError", "nullResult", "emptyResult"}

\* UTC offsets of the host's time zone: Taipei (+08:00) and Kolkata (+05:30)
HostOffsets == {28800, 19800}

\* daily payloads of the close correction: no row, or one flat daily bar, of
\* Mon 2024-01-29 closing above or below the intraday range, or of Tue
\* 2024-01-30
DailyRows ==
    { Row(1706490000, Quote(Num(4), Num(4), Num(4), Num(4), Null, Null)),
      Row(1706490000, Quote(Num(1), Num(1), Num(1), Num(1), Null, Null)),
      Row(1706576400, Quote(Num(4), Num(4), Num(4), Num(4), Null, Null)) }
DailyRowSeqs == {<<>>} \cup {<<r>> : r \in DailyRows}

\* FinMind answers
Threw == [kind |-> "threw", msg |-> "", data |-> <<>>]
Json(msg, data) == [kind |-> "json", msg |-> msg, data |-> data]

Flow(date, name, buy, sell) == [date |-> date, name |-> name, buy |-> buy, sell |-> sell]
Mon29 == <<2024, 1, 29>>
Fri26 == <<2024, 1, 26>>

\* what the three FinMind endpoints answer to one request, together
AuxScenarios ==
    { [info |-> Threw, institutional |-> Threw, price |-> Threw],
      [info |-> Json("success", <<>>), institutional |-> Json("success", <<>>),
       price |-> Json("success", <<>>)],
      [info |-> Json("success", <<[stock_name |-> NameTSMC]>>),
       institutional |-> Json("error", <<>>),
       price |-> Json("success", <<>>)],
      [info |-> Json("success", <<[stock_name |-> NameTSMC]>>),
       institutional |->
           Json("success", << Flow(Mon29, "Foreign_Investor", Num(3), Num(1)),
                              Flow(Mon29, "Foreign_Investor", Num(1), Num(2)) >>),
       price |-> Json("success", <<[date |-> Mon29, Trading_Volume |-> Num(7)]>>)],
      [info |-> Json("success", <<>>),
       institutional |->
           Json("success", << Flow(Mon29, "Foreign_Investor", Num(3), Num(1)),
                              Flow(Mon29, "Investment_Trust", Num(1), Num(2)),
                              Flow(Mon29, "Dealer_self", Num(5), Num(0)) >>),
       price |-> Threw],
      [info |-> Json("success", <<[stock_name |-> NameTSMC]>>),
       institutional |->
           Json("success", << Flow(Fri26, "Investment_Trust", Num(2), Null) >>),
       price |-> Json("success", << [date |-> Fri26, Trading_Volume |-> Num(7)],
                                    [date |-> Fri26, Trading_Volume |-> Num(9)] >>)] }

\* the answers a request gets: the name is asked of Taiwan stocks only
\* (line 486), flows and volumes of their daily bars only (line 491)
AuxAnswers(isTaiwanStock, shouldFetchFinMindChips) ==
    IF shouldFetchFinMindChips THEN AuxScenarios
    ELSE IF isTaiwanStock
    THEN {[info |-> sc.info, institutional |-> NoReply, price |-> NoReply] :
             sc \in AuxScenarios}
    ELSE {[info |-> NoReply, institutional |-> NoReply, price |-> NoReply]}

-----------------------------------------------------------------------------
(* The FinMind helpers, lines 142-179: what each returns for an answer *)

\* cleanId of lines 143, 156 and 169: String.replace removes the first
\* occurrence of each pattern in turn
cleanId(stockId) == ReplaceFirst(ReplaceFirst(stockId, SuffixTW), SuffixTWO)

fetchInstitutionalData(reply) ==
    IF reply.kind = "json" /\ reply.msg = "success" THEN reply.data ELSE <<>>

fetchFinMindPriceVolume(reply) ==
    IF reply.kind = "json" /\ reply.msg = "success" THEN reply.data ELSE <<>>

\* <<>> stands for null
fetchFinMindStockInfo(reply) ==
    IF reply.kind = "json" /\ reply.msg = "success" /\ Len(reply.data) > 0
    THEN reply.data[1].stock_name
    ELSE <<>>

\* lines 481-605: the value getStockData returns for these bars and answers
Enriched(resultMeta, interval, bars, answers) ==
    LET isTaiwanStock == IsTaiwanSymbol(resultMeta.symbol)
        shouldFetchFinMindChips == isTaiwanStock /\ interval = "1d"
        finalData == FinalData(bars,
                               fetchInstitutionalData(answers.institutional),
                               fetchFinMindPriceVolume(answers.price),
                               shouldFetchFinMindChips)
    IN  [status |-> "ok",
         symbol |-> resultMeta.symbol,
         name |-> DisplayName(resultMeta, isTaiwanStock,
                              fetchFinMindStockInfo(answers.info)),
         data |-> CHOOSE data \in {FullProcessedData(fd) : fd \in {finalData}} : TRUE]

-----------------------------------------------------------------------------
(* getStockData, one action per step *)

IsTaiwanStock == IsTaiwanSymbol(mainResponse.symbol)

\* line 270: the call
Request ==
    /\ pc = "idle"
    /\ \E symbol \in Symbols, interval \in Intervals :
          req' = [symbol |-> symbol, interval |-> interval, tried |-> 0,
                  queried |-> <<>>]
    /\ pc' = "fetchMain"
    /\ UNCHANGED <<mainResponse, normalized, processedData, resampled, dailyData,
                   aux, result, kernelVars, appVars>>

\* fetchRawData: the next candidate's query throws; the last one's error
\* rejects getStockData
QueryYahooThrows ==
    /\ pc = "fetchMain"
    /\ \E kind \in FailKinds :
          /\ req' = [req EXCEPT !.tried = @ + 1,
                                 !.queried = Append(@, Candidates(req.symbol)[req.tried + 1])]
          /\ IF req.tried + 1 = Len(Candidates(req.symbol))
             THEN /\ pc' = "rejected"
                  /\ result' = [NoResult EXCEPT !.status = kind]
             ELSE UNCHANGED <<pc, result>>
    /\ UNCHANGED <<mainResponse, normalized, processedData, resampled, dailyData,
                   aux, kernelVars, appVars>>

\* fetchRawData: the next candidate's query returns a response
QueryYahooReturns ==
    /\ pc = "fetchMain"
    /\ \E response \in OkResponses(Candidates(req.symbol)[req.tried + 1],
                                    req.interval, req.tried) :
          mainResponse' = response
    /\ req' = [req EXCEPT !.queried = Append(@, Candidates(req.symbol)[req.tried + 1])]
    /\ pc' = "process"
    /\ UNCHANGED <<normalized, processedData, resampled, dailyData, aux,
                   result, kernelVars, appVars>>

\* lines 288-292
Process ==
    /\ pc = "process"
    /\ processedData' = processYahooResult(mainResponse, req.interval)
    /\ normalized' = processedData'
    /\ pc' = "resample"
    /\ UNCHANGED <<req, mainResponse, resampled, dailyData, aux, result, kernelVars, appVars>>

\* lines 295-327; getPeriodStartDate is called once per bar, outside any try
MergeWeeklyMonthly ==
    /\ pc = "resample"
    /\ req.interval \in {"1wk", "1mo"}
    /\ LET timezone == IF mainResponse.timezone # "" THEN mainResponse.timezone
                       ELSE "Asia/Taipei"
       IN  IF processedData # <<>> /\ PeriodStartThrows(timezone)
           THEN /\ pc' = "rejected"
                /\ result' = [NoResult EXCEPT !.status = "rangeError"]
                /\ UNCHANGED <<processedData, resampled>>
           ELSE /\ processedData' =
                       MergePeriods(processedData, req.interval, mainResponse.timezone)
                /\ resampled' = processedData'
                /\ pc' = "enrich"
                /\ UNCHANGED result
    /\ UNCHANGED <<req, mainResponse, normalized, dailyData, aux, kernelVars, appVars>>

\* lines 330-374
Shift60m ==
    /\ pc = "resample"
    /\ req.interval = "60m" /\ IsTaiwanStock
    /\ \E hostOffset \in HostOffsets :
          /\ processedData' = Rebucket60m(processedData, hostOffset)
          /\ aux' = [aux EXCEPT !.host = hostOffset]
    /\ resampled' = processedData'
    /\ pc' = "correct"
    /\ UNCHANGED <<req, mainResponse, normalized, dailyData, result, kernelVars, appVars>>

\* lines 377-425
Shift15m ==
    /\ pc = "resample"
    /\ req.interval = "15m" /\ IsTaiwanStock
    /\ \E hostOffset \in HostOffsets :
          /\ processedData' = Rebucket15m(processedData, hostOffset)
          /\ aux' = [aux EXCEPT !.host = hostOffset]
    /\ resampled' = processedData'
    /\ pc' = "correct"
    /\ UNCHANGED <<req, mainResponse, normalized, dailyData, result, kernelVars, appVars>>

\* no resampling applies: 1d, or 60m/15m of a non-Taiwan stock
PassThrough ==
    /\ pc = "resample"
    /\ req.interval = "1d" \/ (IsIntraday(req.interval) /\ ~IsTaiwanStock)
    /\ resampled' = processedData
    /\ pc' = "enrich"
    /\ UNCHANGED <<req, mainResponse, normalized, processedData, dailyData, aux,
                   result, kernelVars, appVars>>

\* lines 428-479, the daily fetch resolved
DailyCloseCorrection ==
    /\ pc = "correct"
    /\ \E rows \in DailyRowSeqs :
          /\ dailyData' = processYahooResult(
                 [mainResponse EXCEPT !.shape = "rows", !.rows = rows], "1d")
          /\ processedData' = CorrectCloses(processedData, dailyData')
    /\ aux' = [aux EXCEPT !.daily = "resolved"]
    /\ pc' = "enrich"
    /\ UNCHANGED <<req, mainResponse, normalized, resampled, result, kernelVars, appVars>>

\* DailyCloseCorrectionFails without the catch of lines 476-478
DailyCloseCorrectionRethrows ==
    /\ pc = "correct"
    /\ aux' = [aux EXCEPT !.daily = "threw"]
    /\ pc' = "rejected"
    /\ result' = [NoResult EXCEPT !.status = "dailyFetchError"]
    /\ UNCHANGED <<req, mainResponse, normalized, processedData, resampled,
                   dailyData, kernelVars, appVars>>

\* lines 428-479, the daily fetch threw: caught, nothing corrected
DailyCloseCorrectionFails ==
    /\ pc = "correct"
    /\ aux' = [aux EXCEPT !.daily = "threw"]
    /\ pc' = "enrich"
    /\ UNCHANGED <<req, mainResponse, normalized, processedData, resampled,
                   dailyData, result, kernelVars, appVars>>

\* lines 481-605: the FinMind answers arrive, the bars are enriched and
\* returned
Finish ==
    /\ pc = "enrich"
    /\ \E sc \in AuxAnswers(IsTaiwanStock, IsTaiwanStock /\ req.interval = "1d") :
          /\ aux' = [aux EXCEPT !.dataId = IF IsTaiwanStock
                                           THEN cleanId(mainResponse.symbol)
                                           ELSE <<>>,
                                !.info = sc.info,
                                !.institutional = sc.institutional,
                                !.price = sc.price]
          /\ result' = Enriched(mainResponse, req.interval, processedData, sc)
    /\ pc' = "done"
    /\ UNCHANGED <<req, mainResponse, normalized, processedData, resampled,
                   dailyData, kernelVars, appVars>>

Init ==
    /\ ServiceIdle
    /\ call = NoCall
    /\ ret = NoRet
    /\ app = AppInitial

Next ==
    \/ Request
    \/ QueryYahooThrows
    \/ QueryYahooReturns
    \/ Process
    \/ MergeWeeklyMonthly
    \/ Shift60m
    \/ Shift15m
    \/ PassThrough
    \/ DailyCloseCorrection
    \/ DailyCloseCorrectionFails
    \/ Finish

Spec == Init /\ [][Next]_vars


-----------------------------------------------------------------------------
(* Data service properties *)

Returns == pc = "done" /\ result.status = "ok"

\* the payload carries no bars: no timestamp array, no close array, or zero rows
PayloadUnavailable(response) == response.shape # "rows" \/ response.rows = <<>>

\* C1: getStockData returns a result only when the payload fetchRawData
\* resolved to is well-formed and non-empty; on an empty or malformed payload
\* it rejects and never returns an empty bar series.
UnavailableRejects ==
    Returns => (~PayloadUnavailable(mainResponse) /\ result.data # <<>>)

LowOpenCloseHigh(o, h, l, c) == JLe(l, o) /\ JLe(o, h) /\ JLe(l, c) /\ JLe(c, h)

OHLCCorrectedWitness ==
    /\ Returns
    /\ IsIntraday(req.interval)
    /\ \E i \in 1..Len(result.data) :
          /\ result.data[i].close = Num(4)
          /\ result.data[i].high = Num(4)
          /\ result.data[i].closeAdj # Num(4)

\* C3: the returned bar sequence is strictly increasing in timestamp.
TimestampsStrictlyIncreasing ==
    Returns =>
        \A i, j \in 1..Len(result.data) :
            i < j => result.data[i].timestamp < result.data[j].timestamp

TimeOrdered(bars) ==
    \A i, j \in 1..Len(bars) : i < j => bars[i].timestamp <= bars[j].timestamp

\* the normalized bars that fall into the bucket with this key, in input order
Constituents(key) ==
    SelectSeq(normalized,
              LAMBDA b : getPeriodStartDate(b.timestamp, req.interval,
                                            mainResponse.timezone) = key)

\* C10: with time-ordered input, each weekly/monthly bucket has the open of
\* its first constituent, a high >= and a low <= every constituent's, and the
\* close of its last constituent.
BucketOHLC ==
    (Returns /\ req.interval \in {"1wk", "1mo"} /\ TimeOrdered(normalized)) =>
        /\ \A i \in 1..Len(normalized) :
              \E k \in 1..Len(result.data) :
                  result.data[k].date = getPeriodStartDate(normalized[i].timestamp,
                                            req.interval, mainResponse.timezone)
        /\ \A k \in 1..Len(result.data) :
              LET b == result.data[k]
                  cs == Constituents(b.date)
              IN  /\ cs # <<>>
                  /\ b.open = cs[1].open
                  /\ b.close = cs[Len(cs)].close
                  /\ \A i \in 1..Len(cs) : JLe(cs[i].high, b.high) /\ JLe(b.low, cs[i].low)

\* a bucket of two time-ordered bars that differ in open, high, low and close
BucketWitness ==
    /\ Returns
    /\ req.interval \in {"1wk", "1mo"}
    /\ TimeOrdered(normalized)
    /\ \E k \in 1..Len(result.data) :
          LET cs == Constituents(result.data[k].date)
          IN  /\ Len(cs) = 2
              /\ cs[1].open # cs[2].open
              /\ cs[1].close # cs[2].close
              /\ cs[1].high # cs[2].high
              /\ cs[1].low # cs[2].low

\* the two opens differ by more than 1e-4
OpensApart(a, b) ==
    \/ JLt(Frac(1, 10000), JSub(a, b))
    \/ JLt(Frac(1, 10000), JSub(b, a))

\* the volume of a bucket after its first k constituents have been merged
\* one by one, by the stated rule
RECURSIVE VolumeByRule(_, _)
VolumeByRule(cs, k) ==
    IF k = 1 THEN cs[1].volume
    ELSE IF OpensApart(cs[k].open, cs[1].open)
         THEN JAdd(VolumeByRule(cs, k - 1), cs[k].volume)
         ELSE cs[k].volume

\* C22: when a bar is merged into an existing weekly/monthly bucket the
\* bucket volume becomes bucket volume + incoming volume if the incoming open
\* differs from the bucket's recorded open by more than 1e-4, and the incoming
\* volume alone otherwise.
VolumeMergeRule ==
    (Returns /\ req.interval \in {"1wk", "1mo"}) =>
        \A k \in 1..Len(result.data) :
            LET cs == Constituents(result.data[k].date)
            IN  cs # <<>> /\ result.data[k].volume = VolumeByRule(cs, Len(cs))

\* a bucket of two bars with different opens returned with the sum of their
\* volumes, where the incoming volume alone would be a different number
VolumeSummedWitness ==
    /\ Returns
    /\ req.interval \in {"1wk", "1mo"}
    /\ \E k \in 1..Len(result.data) :
          LET cs == Constituents(result.data[k].date)
          IN  /\ Len(cs) >= 2
              /\ OpensApart(cs[Len(cs)].open, cs[1].open)
              /\ cs[1].volume # Num(0)
              /\ result.data[k].volume = JAdd(cs[1].volume, cs[Len(cs)].volume)

\* a bucket of two bars with the same open returned with the volume of the
\* later bar, where the sum would be a different number
VolumeReplacedWitness ==
    /\ Returns
    /\ req.interval \in {"1wk", "1mo"}
    /\ \E k \in 1..Len(result.data) :
          LET cs == Constituents(result.data[k].date)
          IN  /\ Len(cs) >= 2
              /\ cs[Len(cs)].open = cs[1].open
              /\ cs[1].volume # Num(0)
              /\ result.data[k].volume = cs[Len(cs)].volume

\* the stated order of the candidates of a symbol without suffix
CandidateOrder(symbol) ==
    IF \E i \in 1..Len(symbol) : symbol[i] \in Digits
    THEN <<symbol \o SuffixTW, symbol \o SuffixTWO>>
    ELSE <<symbol, symbol \o SuffixTW, symbol \o SuffixTWO>>

\* C26: fetchRawData queries its candidates one at a time in the fixed order
\* ([T.TW, T.TWO] for a symbol with a digit, [S, S.TW, S.TWO] otherwise): the
\* identifiers queried so far are a prefix of that list, each was queried
\* after all before it had failed, nothing is queried after a success, and
\* the fetch fails only when every candidate has failed.
SequentialFallback ==
    pc # "idle" =>
        /\ Len(req.queried) <= Len(CandidateOrder(req.symbol))
        /\ req.queried = SubSeq(CandidateOrder(req.symbol), 1, Len(req.queried))
        /\ pc = "fetchMain" => req.tried = Len(req.queried)
        /\ result.status \in FailKinds =>
              /\ req.queried = CandidateOrder(req.symbol)
              /\ req.tried = Len(req.queried)
              /\ mainResponse = NoResponse
        /\ (pc # "fetchMain" /\ result.status \notin FailKinds) =>
              /\ req.queried # <<>>
              /\ req.tried = Len(req.queried) - 1
              /\ mainResponse.symbol = req.queried[Len(req.queried)]

\* the third candidate answered after the first two had failed, and the
\* request went on with its response
LastCandidateWitness ==
    /\ pc \in {"process", "resample", "enrich", "done"}
    /\ Len(req.queried) = 3
    /\ req.tried = 2
    /\ mainResponse.symbol = req.symbol \o SuffixTWO

\* every candidate failed and the request was rejected
AllCandidatesFailedWitness ==
    /\ pc = "rejected"
    /\ result.status \in FailKinds
    /\ req.queried = CandidateOrder(req.symbol)

\* each moving average of the returned bars with its direction flag
MaDirPairs ==
    { <<"ma5", "ma5Dir">>, <<"ma10", "ma10Dir">>, <<"ma20", "ma20Dir">>,
      <<"ma60", "ma60Dir">> }

\* C27: for each of MA-5/10/20/60 and every index i the direction flag is
\* 'flat' whenever the average at i or at i-1 is undefined; in particular it
\* is 'flat' at the first index where the average is defined.
WarmUpDirFlat ==
    Returns =>
        \A p \in MaDirPairs :
            \A i \in 1..Len(result.data) :
                (\/ i = 1
                 \/ IsUndefined(result.data[i][p[1]])
                 \/ IsUndefined(result.data[i - 1][p[1]]))
                    => result.data[i][p[2]] = "flat"

\* the symbol without its .TW or .TWO suffix
WithoutSuffix(symbol) ==
    IF EndsWith(symbol, SuffixTWO) THEN SubSeq(symbol, 1, Len(symbol) - Len(SuffixTWO))
    ELSE IF EndsWith(symbol, SuffixTW) THEN SubSeq(symbol, 1, Len(symbol) - Len(SuffixTW))
    ELSE symbol

\* C28: for a symbol ending in .TW or .TWO the stripping that builds the
\* FinMind data_id yields the symbol with exactly that suffix removed.
SuffixStripped ==
    (Returns /\ IsTaiwanStock) => aux.dataId = WithoutSuffix(mainResponse.symbol)

\* the Taiwan-stock series of this interval has been re-bucketed: normalized
\* holds the bars that went in, resampled the bars that came out
Rebucketed(interval) ==
    /\ req.interval = interval
    /\ IsTaiwanStock
    /\ pc \in {"correct", "enrich", "done"}

\* hour * 100 + minute of a timestamp on the Taipei clock
TaipeiTime(timestamp) ==
    LET p == LocalParts(timestamp, "Asia/Taipei")
    IN  p.hour * 100 + p.minute

\* the timestamp of 13:30 Taipei time on the timestamp's Taipei date
EndOfSession(timestamp) ==
    LET local == timestamp + TzOffset("Asia/Taipei")
    IN  (local - (local % 86400)) + 13 * 3600 + 30 * 60 - TzOffset("Asia/Taipei")

SameOHLCV(a, b) ==
    /\ a.open = b.open /\ a.high = b.high /\ a.low = b.low /\ a.close = b.close
    /\ a.volume = b.volume

InSession60(d) == TaipeiTime(d.timestamp) >= 900 /\ TaipeiTime(d.timestamp) < 1400

\* where the hourly rule places a bar of the session
Target60(d) ==
    IF TaipeiTime(d.timestamp) < 1300 THEN d.timestamp + 3600
    ELSE EndOfSession(d.timestamp)

\* C23: in 60m re-bucketing of a Taiwan stock every bar of local hour 09-12
\* is placed at its timestamp plus one hour, a bar of local hour 13 at the
\* 13:30 end-of-session timestamp, and bars outside those hours do not appear
\* in the output.
HourlyPlacement ==
    Rebucketed("60m") =>
        /\ \A k \in 1..Len(resampled) :
              \E i \in 1..Len(normalized) :
                  /\ InSession60(normalized[i])
                  /\ resampled[k].timestamp = Target60(normalized[i])
                  /\ SameOHLCV(resampled[k], normalized[i])
        /\ \A i \in 1..Len(normalized) :
              InSession60(normalized[i]) =>
                  \E k \in 1..Len(resampled) :
                      resampled[k].timestamp = Target60(normalized[i])

\* where the 15-minute rule places a bar: 15 minutes on, and no later than
\* 13:30 of its date
Target15(d) ==
    IF d.timestamp + 15 * 60 >= EndOfSession(d.timestamp)
    THEN EndOfSession(d.timestamp)
    ELSE d.timestamp + 15 * 60

InWindow15(timestamp) == TaipeiTime(timestamp) >= 915 /\ TaipeiTime(timestamp) <= 1330

\* C24: in 15m re-bucketing of a Taiwan stock every bar is shifted forward by
\* 15 minutes, a bar landing at or after 13:30 local is clamped to exactly
\* 13:30, and no bar of the output lies outside 09:15-13:30.
QuarterHourPlacement ==
    Rebucketed("15m") =>
        /\ \A k \in 1..Len(resampled) :
              /\ InWindow15(resampled[k].timestamp)
              /\ \E i \in 1..Len(normalized) :
                    /\ resampled[k].timestamp = Target15(normalized[i])
                    /\ SameOHLCV(resampled[k], normalized[i])
        /\ \A i \in 1..Len(normalized) :
              InWindow15(Target15(normalized[i])) =>
                  \E k \in 1..Len(resampled) :
                      resampled[k].timestamp = Target15(normalized[i])

\* the timestamp the re-bucketing of this interval moved the raw bar to
ShiftedTs(d, interval) ==
    IF interval = "60m" THEN ShiftedTs60(d, aux.host) ELSE ShiftedTs15(d, aux.host)

\* the raw bar lies in the hours / window the re-bucketing keeps
InTradingWindow(d, interval) ==
    IF interval = "60m" THEN d.rawHour >= 9 /\ d.rawHour <= 13
    ELSE InWindow15(ShiftedTs(d, interval))

\* the bucket label the raw bar shifts to
ShiftedLabel(d, interval) ==
    formatExchangeDate(ShiftedTs(d, interval), d.exchangeTimezone, interval)

\* the raw bars of the trading window that shift to this label
SharingLabel(label, interval) ==
    {i \in 1..Len(normalized) :
        /\ InTradingWindow(normalized[i], interval)
        /\ ShiftedLabel(normalized[i], interval) = label}

\* C25: in 60m and 15m re-bucketing the output has at most one bar per
\* bucket label, and when several raw bars shift to one label the output bar
\* carries the OHLCV of the earliest of them unchanged.
FirstBarWins ==
    \A interval \in {"60m", "15m"} :
        Rebucketed(interval) =>
            /\ \A k, l \in 1..Len(resampled) :
                  k # l => resampled[k].date # resampled[l].date
            /\ \A k \in 1..Len(resampled) :
                  \E i \in SharingLabel(resampled[k].date, interval) :
                      /\ \A j \in SharingLabel(resampled[k].date, interval) :
                            normalized[i].timestamp <= normalized[j].timestamp
                      /\ SameOHLCV(resampled[k], normalized[i])

\* the Taipei calendar date <<year, month, day>> and time of day of a timestamp
TaipeiDate(timestamp) ==
    LET p == LocalParts(timestamp, "Asia/Taipei")
    IN  <<p.year, p.month, p.day>>

\* the raw bar at index i has no bar in the output: no output bar stands at
\* the timestamp it was shifted to
Discarded(i, interval) ==
    \A k \in 1..Len(resampled) :
        resampled[k].timestamp # ShiftedTs(normalized[i], interval)

\* C29: in 60m and 15m re-bucketing a bar inside the trading window is
\* discarded only if an earlier bar of the same local calendar date (year,
\* month and day) shifts to the same time of day.
DiscardedOnlyWithinDate ==
    \A interval \in {"60m", "15m"} :
        Rebucketed(interval) =>
            \A i \in 1..Len(normalized) :
                (InTradingWindow(normalized[i], interval) /\ Discarded(i, interval)) =>
                    \E j \in 1..(i - 1) :
                        /\ InTradingWindow(normalized[j], interval)
                        /\ TaipeiDate(ShiftedTs(normalized[j], interval)) =
                               TaipeiDate(ShiftedTs(normalized[i], interval))
                        /\ TaipeiTime(ShiftedTs(normalized[j], interval)) =
                               TaipeiTime(ShiftedTs(normalized[i], interval))

\* the bar at index i is the latest bar of its local calendar date
IsLastOfDate(bars, i) ==
    \A j \in 1..Len(bars) :
        bars[j].rawDateStr = bars[i].rawDateStr => bars[j].timestamp <= bars[i].timestamp

SamePrices(a, b) ==
    /\ a.open = b.open /\ a.high = b.high /\ a.low = b.low /\ a.close = b.close
    /\ a.openAdj = b.openAdj /\ a.highAdj = b.highAdj /\ a.lowAdj = b.lowAdj
    /\ a.closeAdj = b.closeAdj

\* C11: for a Taiwan stock at 60m or 15m, the final returned bar of every
\* date with a non-zero daily close has that close, within its low..high
\* range, and every bar that is not the final one of its date has the prices
\* it had after resampling.
DailyCloseApplied ==
    (Returns /\ IsTaiwanStock /\ IsIntraday(req.interval)) =>
        \A i \in 1..Len(result.data) :
            LET b == result.data[i]
                correctClose == DailyClose(dailyData, b.rawDateStr)
            IN  IF IsLastOfDate(result.data, i)
                THEN (~IsNull(correctClose) /\ correctClose # Num(0)) =>
                        /\ b.close = correctClose
                        /\ JLe(b.low, b.close) /\ JLe(b.close, b.high)
                ELSE SamePrices(b, resampled[i])

\* a source that threw, seen as the same source answering with no data
AsIfNoData(reply) == IF reply.kind = "threw" THEN Json("success", <<>>) ELSE reply

\* C12: once the primary fetch has succeeded no auxiliary failure rejects the
\* request (a rejection happens before any auxiliary fetch), and the value
\* returned is the one computed with every failed source answering no data:
\* closes uncorrected, flows zero, primary volume kept, no fetched name.
AuxFailureTolerated ==
    /\ pc = "rejected" => aux = NoAux
    /\ Returns =>
          result = Enriched(mainResponse, req.interval,
                            IF aux.daily = "threw"
                            THEN CorrectCloses(resampled, processYahooResult(
                                     [mainResponse EXCEPT !.shape = "rows", !.rows = <<>>],
                                     "1d"))
                            ELSE processedData,
                            [info |-> AsIfNoData(aux.info),
                             institutional |-> AsIfNoData(aux.institutional),
                             price |-> AsIfNoData(aux.price)])

\* a returned Taiwan intraday series whose daily fetch and name fetch both threw
AuxFailureWitness ==
    /\ Returns
    /\ result.data # <<>>
    /\ aux.daily = "threw"
    /\ aux.info.kind = "threw"

\* a returned Taiwan daily series whose three FinMind requests all threw
AuxChipsFailureWitness ==
    /\ Returns
    /\ result.data # <<>>
    /\ aux.institutional.kind = "threw"
    /\ aux.price.kind = "threw"
    /\ \A i \in 1..Len(result.data) :
          /\ result.data[i].foreignBuySell = Num(0)
          /\ result.data[i].volume = processedData[i].volume

\* C13: no error raised while resampling aborts the request: getStockData
\* rejects only when the primary fetch has failed, so a rejected request has
\* no primary response.
ResamplingNeverAborts ==
    pc = "rejected" => mainResponse = NoResponse

\* the fields of the indicator families on the raw basis, each with the
\* field of the same indicator on the adjusted basis
BasisPairs ==
    { <<"ma5", "ma5Adj">>, <<"ma10", "ma10Adj">>, <<"ma20", "ma20Adj">>,
      <<"ma60", "ma60Adj">>, <<"rsi", "rsiAdj">>, <<"macd", "macdAdj">>,
      <<"macdSignal", "macdSignalAdj">>, <<"macdHist", "macdHistAdj">>,
      <<"k", "kAdj">>, <<"d", "dAdj">>, <<"j", "jAdj">> }

\* C16: every returned bar carries, for each indicator family (SMA-5/10/20/60,
\* RSI-14, MACD line/signal/histogram and KDJ K/D/J), a field on the raw
\* basis and a field on the adjusted basis.
BothBasesCarried ==
    result.status = "ok" =>
        \A i \in 1..Len(result.data) : \A p \in BasisPairs :
            p[1] \in DOMAIN result.data[i] /\ p[2] \in DOMAIN result.data[i]

\* the four direction flags of a returned bar are 'flat'
DirsFlat(bar) ==
    bar.ma5Dir = "flat" /\ bar.ma10Dir = "flat" /\ bar.ma20Dir = "flat"
    /\ bar.ma60Dir = "flat"

NetOf(record) ==
    JSub(IF IsNull(record.buy) THEN Num(0) ELSE record.buy,
         IF IsNull(record.sell) THEN Num(0) ELSE record.sell)

\* the sum of buy - sell over the first n records of a date and class
RECURSIVE NetFlow(_, _, _, _)
NetFlow(records, n, date, class) ==
    IF n = 0 THEN Num(0)
    ELSE IF records[n].date = date /\ records[n].name = class
    THEN JAdd(NetFlow(records, n - 1, date, class), NetOf(records[n]))
    ELSE NetFlow(records, n - 1, date, class)

\* C18: the foreign and investment-trust net flow attached to a bar are the
\* sums of buy - sell over the fetched flow records of the bar's date and of
\* that class, records of other classes ignored, and exactly 0 when there is
\* no such record.
ChipsSummed ==
    result.status = "ok" =>
        \A records \in {fetchInstitutionalData(aux.institutional)} :
            \A i \in 1..Len(result.data) :
                /\ result.data[i].foreignBuySell =
                       NetFlow(records, Len(records), result.data[i].date,
                               "Foreign_Investor")
                /\ result.data[i].investmentTrustBuySell =
                       NetFlow(records, Len(records), result.data[i].date,
                               "Investment_Trust")

\* two foreign records of one date have been summed into a bar of that date,
\* next to a bar of a date without records
ChipsSummedWitness ==
    /\ result.status = "ok"
    /\ \E i, j \in 1..Len(result.data) :
          /\ result.data[i].date = Mon29
          /\ result.data[i].foreignBuySell = Num(1)
          /\ result.data[j].date # Mon29
          /\ result.data[j].foreignBuySell = Num(0)
    /\ \E m, n \in 1..Len(fetchInstitutionalData(aux.institutional)) :
          /\ m # n
          /\ fetchInstitutionalData(aux.institutional)[m].name = "Foreign_Investor"
          /\ fetchInstitutionalData(aux.institutional)[n].name = "Foreign_Investor"

-----------------------------------------------------------------------------
(* Enrichment of long series: getStockData from a resolved daily response of *)
(* up to MaxBars bars, all equal but possibly the last                       *)

MaxBars == 69       \* most bars of a long payload

\* the bar every row of a long payload repeats: flat at 2, flat at 3 with an
\* adjusted close of 1, or flat at 0
LongQuotes ==
    { FlatQuote,
      Quote(Num(3), Num(3), Num(3), Num(3), Num(1), Num(1)),
      Quote(Num(0), Num(0), Num(0), Num(0), Num(1), Null) }

\* n consecutive days from 2024-01-29 09:00 Taipei time, the last one with
\* the quote last
LongRows(n, q, last) ==
    [i \in 1..n |-> Row(1706490000 + 86400 * (i - 1), IF i = n THEN last ELSE q)]

InitEnrich ==
    /\ pc = "process"
    /\ req = [symbol |-> StrAAPL, interval |-> "1d", tried |-> 0,
              queried |-> <<StrAAPL>>]
    /\ \E n \in 0..MaxBars, q \in LongQuotes :
       \E last \in {q, FlatQuote} :
          mainResponse = Response(StrAAPL, CandidateTimezone(StrAAPL), "rows",
                                  LongRows(n, q, last))
    /\ normalized = <<>>
    /\ processedData = <<>>
    /\ resampled = <<>>
    /\ dailyData = <<>>
    /\ aux = NoAux
    /\ result = NoResult
    /\ call = NoCall
    /\ ret = NoRet
    /\ app = AppInitial

NextEnrich ==
    \/ Process
    \/ PassThrough
    \/ Finish

SpecEnrich == InitEnrich /\ [][NextEnrich]_vars

\* the indicator fields of a returned bar that start with a warm-up period
IndicatorFields ==
    {"ma5", "ma10", "ma20", "ma60", "rsi", "macd", "macdSignal", "macdHist",
     "ma5Adj", "ma10Adj", "ma20Adj", "ma60Adj", "rsiAdj", "macdAdj",
     "macdSignalAdj", "macdHistAdj"}

\* the first index (from 0) at which the indicator of a field has enough
\* history: period - 1 for an average, 14 for RSI-14, 25 for the MACD line
\* (slow EMA of 26) and 25 + 8 for its signal line and histogram
WarmUp(f) ==
    CASE f \in {"ma5", "ma5Adj"} -> 4
      [] f \in {"ma10", "ma10Adj"} -> 9
      [] f \in {"ma20", "ma20Adj"} -> 19
      [] f \in {"ma60", "ma60Adj"} -> 59
      [] f \in {"rsi", "rsiAdj"} -> 14
      [] f \in {"macd", "macdAdj"} -> 25
      [] OTHER -> 33

\* the kernel array behind a field
KernelArray(ind, f) ==
    CASE f = "ma5" -> ind.ma5
      [] f = "ma10" -> ind.ma10
      [] f = "ma20" -> ind.ma20
      [] f = "ma60" -> ind.ma60
      [] f = "rsi" -> ind.rsi
      [] f = "macd" -> ind.macd.macdLine
      [] f = "macdSignal" -> ind.macd.signalLine
      [] f = "macdHist" -> ind.macd.histogram
      [] f = "ma5Adj" -> ind.ma5Adj
      [] f = "ma10Adj" -> ind.ma10Adj
      [] f = "ma20Adj" -> ind.ma20Adj
      [] f = "ma60Adj" -> ind.ma60Adj
      [] f = "rsiAdj" -> ind.rsiAdj
      [] f = "macdAdj" -> ind.macdDataAdj.macdLine
      [] f = "macdSignalAdj" -> ind.macdDataAdj.signalLine
      [] f = "macdHistAdj" -> ind.macdDataAdj.histogram

\* C14: in the returned series every indicator field is undefined exactly at
\* the indices of its warm-up period, and at every later index it is the
\* value the kernel computed there, a value of zero included.
IndicatorsFaithful ==
    result.status = "ok" =>
        \A ind \in {Indicators(result.data)} :
            \A i \in 1..Len(result.data), f \in IndicatorFields :
                IF i - 1 < WarmUp(f)
                THEN IsUndefined(result.data[i][f])
                ELSE result.data[i][f] = KernelArray(ind, f)[i]

\* the bars formatPromptData reads (gemini.ts:10-11, 36): the latest bar, the
\* one before it and the trailing ten, as indices from 1 into n bars
TrailingWindow(n) == {i \in 1..n : i > n - 10}

\* the period of a moving-average field
MaPeriod(f) ==
    CASE f = "ma5" -> 5 [] f = "ma10" -> 10 [] f = "ma20" -> 20 [] f = "ma60" -> 60

\* close[from] + ... + close[to] of the bars, indices from 1
RECURSIVE CloseSum(_, _, _)
CloseSum(bars, from, to) ==
    IF to < from THEN Num(0)
    ELSE IF to = from THEN bars[from].close
    ELSE JAdd(CloseSum(bars, from, (from + to) \div 2),
              CloseSum(bars, (from + to) \div 2 + 1, to))

-----------------------------------------------------------------------------
(* The normalizer alone: processYahooResult on payloads of up to MaxPayload  *)
(* rows with missing values                                                   *)

MaxPayload == 3     \* most rows of a payload with missing values

\* a complete bar, one without volume, one for each missing price, and an
\* index at which every array holds null
NullableQuotes ==
    { FlatQuote,
      Quote(Num(2), Num(3), Num(2), Num(3), Null, Null),
      Quote(Null, Num(2), Num(2), Num(2), Num(1), Null),
      Quote(Num(2), Null, Num(2), Num(2), Num(1), Null),
      Quote(Num(2), Num(2), Null, Num(2), Num(1), Null),
      Quote(Num(2), Num(2), Num(2), Null, Num(1), Null),
      Quote(Null, Null, Null, Null, Null, Null) }

\* payloads of consecutive days from 2024-01-29 09:00 Taipei time
NullableRowSeqs ==
    UNION {[1..n -> NullableQuotes] : n \in 0..MaxPayload}

-----------------------------------------------------------------------------
(* Intraday re-bucketing on sessions with bars before the open, after the
   close, and on the same calendar day of the next year *)

MaxIntraday == 2    \* longest intraday payload

\* Mon 2024-01-29 09:00, 12:00, 13:00, 13:25 and 14:00 Taipei time, and
\* Wed 2025-01-29 09:00
SessionTs60 == {1706490000, 1706500800, 1706504400, 1706505900, 1706508000,
                1738112400}

\* Mon 2024-01-29 08:45, 09:00, 13:15, 13:30 and 14:00 Taipei time, and
\* Wed 2025-01-29 09:00
SessionTs15 == {1706489100, 1706490000, 1706505300, 1706506200, 1706508000,
                1738112400}

SessionQuotes ==
    { FlatQuote, Quote(Num(3), Num(4), Num(1), Num(3), Num(5), Num(1)) }

SessionRowSeqs(interval) ==
    SeqsUpTo({Row(ts, q) : ts \in IF interval = "60m" THEN SessionTs60
                                  ELSE SessionTs15,
                           q \in SessionQuotes}, MaxIntraday)

InitIntraday ==
    /\ pc = "process"
    /\ \E symbol \in Symbols, interval \in {"60m", "15m"} :
          /\ req = [symbol |-> symbol, interval |-> interval, tried |-> 0,
                    queried |-> <<Candidates(symbol)[1]>>]
          /\ \E rows \in SessionRowSeqs(interval) :
                mainResponse = Response(Candidates(symbol)[1],
                                        CandidateTimezone(Candidates(symbol)[1]),
                                        "rows", rows)
    /\ normalized = <<>>
    /\ processedData = <<>>
    /\ resampled = <<>>
    /\ dailyData = <<>>
    /\ aux = NoAux
    /\ result = NoResult
    /\ call = NoCall
    /\ ret = NoRet
    /\ app = AppInitial

NextIntraday ==
    \/ Process
    \/ Shift60m
    \/ Shift15m
    \/ PassThrough

SpecIntraday == InitIntraday /\ [][NextIntraday]_vars

InitNormalizer ==
    /\ pc = "process"
    /\ req = [symbol |-> StrAAPL, interval |-> "1d", tried |-> 0,
              queried |-> <<StrAAPL>>]
    /\ \E quotes \in NullableRowSeqs :
          mainResponse =
              Response(StrAAPL, CandidateTimezone(StrAAPL), "rows",
                       [i \in 1..Len(quotes) |->
                           Row(1706490000 + 86400 * (i - 1), quotes[i])])
    /\ normalized = <<>>
    /\ processedData = <<>>
    /\ resampled = <<>>
    /\ dailyData = <<>>
    /\ aux = NoAux
    /\ result = NoResult
    /\ call = NoCall
    /\ ret = NoRet
    /\ app = AppInitial

NextNormalizer == Process

SpecNormalizer == InitNormalizer /\ [][NextNormalizer]_vars

\* the payload indices (from 1) at which all four prices are present
PricedIndices(rows) ==
    {i \in 1..Len(rows) :
        /\ ~IsNull(rows[i].open) /\ ~IsNull(rows[i].high)
        /\ ~IsNull(rows[i].low) /\ ~IsNull(rows[i].close)}

\* the k-th smallest element of a set of indices
KthIndex(indices, k) ==
    CHOOSE i \in indices : Cardinality({j \in indices : j <= i}) = k

\* C19: the normalizer outputs one bar for each payload index at which open,
\* high, low and close are all non-null, and for no other index, in payload
\* order, each with the prices of its index and with volume 0 for a null
\* volume.
NormalizerKeepsPriced ==
    pc = "resample" =>
        \A priced \in {PricedIndices(mainResponse.rows)} :
            /\ Len(normalized) = Cardinality(priced)
            /\ \A k \in 1..Len(normalized) :
                  \A row \in {mainResponse.rows[KthIndex(priced, k)]} :
                      /\ normalized[k].timestamp = row.timestamp
                      /\ normalized[k].open = row.open
                      /\ normalized[k].high = row.high
                      /\ normalized[k].low = row.low
                      /\ normalized[k].close = row.close
                      /\ normalized[k].volume =
                             IF IsNull(row.volume) THEN Num(0) ELSE row.volume

\* a payload with an incomplete index between two complete ones, one of them
\* without volume, has been normalized
NormalizerWitness ==
    /\ pc = "resample"
    /\ Len(mainResponse.rows) = 3
    /\ PricedIndices(mainResponse.rows) = {1, 3}
    /\ IsNull(mainResponse.rows[3].volume)
    /\ Len(normalized) = 2

-----------------------------------------------------------------------------
(* App (types.ts:541-592): fetchData calls issued by the mount effect, by an *)
(* interval change and by the search form, each completing on its own        *)

MaxRequests == 3    \* most fetchData calls issued

\* the series and the stock info getStockData resolves to for a request
\* stand for themselves as the request's symbol and interval
SeriesOf(request) == [symbol |-> request.symbol, interval |-> request.interval]

\* fetchData up to its await (lines 569-572): setLoading(true),
\* setError(null), getStockData called
FetchData(sym, intvl, state) ==
    [state EXCEPT !.loading = TRUE,
                  !.error = "",
                  !.issued = @ + 1,
                  !.inFlight = @ \cup {[id |-> state.issued + 1, symbol |-> sym,
                                        interval |-> intvl]}]

\* lines 586-588: the effect of the first render
Mount ==
    /\ ~app.mounted
    /\ app.issued < MaxRequests
    /\ app' = FetchData(app.symbol, app.interval, [app EXCEPT !.mounted = TRUE])
    /\ UNCHANGED <<serviceVars, kernelVars>>

\* the input's onChange: setSymbol; the page is covered while the analysis
\* modal is shown (types.ts:636-637)
TypeSymbol ==
    /\ app.mounted
    /\ ~app.showAnalysisModal
    /\ \E sym \in Symbols : sym # app.symbol /\ app' = [app EXCEPT !.symbol = sym]
    /\ UNCHANGED <<serviceVars, kernelVars>>

\* Sidebar's setInterval followed by the effect of lines 586-588, which runs
\* whenever interval has changed, loading or not
SetInterval ==
    /\ app.mounted
    /\ ~app.showAnalysisModal
    /\ app.issued < MaxRequests
    /\ \E intvl \in Intervals :
          /\ intvl # app.interval
          /\ app' = FetchData(app.symbol, intvl, [app EXCEPT !.interval = intvl])
    /\ UNCHANGED <<serviceVars, kernelVars>>

\* lines 590-593; the submit button is disabled while loading
HandleSearch ==
    /\ app.mounted
    /\ ~app.showAnalysisModal
    /\ ~app.loading
    /\ app.issued < MaxRequests
    /\ app' = FetchData(app.symbol, app.interval, app)
    /\ UNCHANGED <<serviceVars, kernelVars>>

\* lines 573-576 and 582-584: getStockData resolved
FetchResolves ==
    /\ \E request \in app.inFlight :
          app' = [app EXCEPT !.data = SeriesOf(request),
                             !.info = SeriesOf(request),
                             !.analysis = "",
                             !.loading = FALSE,
                             !.inFlight = @ \ {request},
                             !.writer = request.id]
    /\ UNCHANGED <<serviceVars, kernelVars>>

\* lines 577-584: getStockData rejected
FetchRejects ==
    /\ \E request \in app.inFlight :
          app' = [app EXCEPT !.error = "Failed to fetch stock data.",
                             !.data = NoData,
                             !.info = NoData,
                             !.loading = FALSE,
                             !.inFlight = @ \ {request},
                             !.writer = request.id]
    /\ UNCHANGED <<serviceVars, kernelVars>>

\* lines 595-600; the AI button is disabled while analyzing or loading or
\* without data (line 839)
HandleOpenAnalysisModal ==
    /\ app.mounted
    /\ ~app.showAnalysisModal
    /\ ~app.analyzing /\ ~app.loading /\ app.data # NoData
    /\ app' = [app EXCEPT !.showAnalysisModal = TRUE]
    /\ UNCHANGED <<serviceVars, kernelVars>>

\* the modal's close button (line 643)
CloseAnalysisModal ==
    /\ app.showAnalysisModal
    /\ app' = [app EXCEPT !.showAnalysisModal = FALSE]
    /\ UNCHANGED <<serviceVars, kernelVars>>

\* handleRunAnalysis up to its await (lines 602-609): the modal closes,
\* analyzing is set and analyzeStockWithGemini is called with the symbol and
\* the data on display
HandleRunAnalysis ==
    /\ app.showAnalysisModal
    /\ app' = [app EXCEPT
                  !.showAnalysisModal = FALSE,
                  !.analyzing = TRUE,
                  !.analysisInFlight =
                      @ \cup {[symbol |-> IF app.info # NoData THEN app.info.symbol
                                          ELSE app.symbol,
                               data |-> app.data]}]
    /\ UNCHANGED <<serviceVars, kernelVars>>

\* lines 609-614 and 622-624: analyzeStockWithGemini resolved
AnalysisResolves ==
    /\ \E request \in app.analysisInFlight :
          app' = [app EXCEPT !.analysis = "report",
                             !.analysisOf = request,
                             !.analyzing = FALSE,
                             !.analysisInFlight = @ \ {request}]
    /\ UNCHANGED <<serviceVars, kernelVars>>

\* lines 615-624: analyzeStockWithGemini rejected
AnalysisRejects ==
    /\ \E request \in app.analysisInFlight :
          app' = [app EXCEPT !.analysis = "Analysis Failed",
                             !.analysisOf = request,
                             !.analyzing = FALSE,
                             !.analysisInFlight = @ \ {request}]
    /\ UNCHANGED <<serviceVars, kernelVars>>

NextApp ==
    \/ Mount
    \/ TypeSymbol
    \/ SetInterval
    \/ HandleSearch
    \/ FetchResolves
    \/ FetchRejects
    \/ HandleOpenAnalysisModal
    \/ CloseAnalysisModal
    \/ HandleRunAnalysis
    \/ AnalysisResolves
    \/ AnalysisRejects

SpecApp == Init /\ [][NextApp]_vars

\* C20: once every issued request has completed, in whichever order, the
\* data and stock info on display were set by the most recently issued one.
LatestRequestWins ==
    (app.issued > 0 /\ app.inFlight = {}) => app.writer = app.issued

\* C30: whenever no request is in flight and a non-empty analysis text is
\* displayed, that analysis was generated from the data series and the symbol
\* currently displayed.
AnalysisMatchesData ==
    (app.inFlight = {} /\ app.analysisInFlight = {} /\ app.analysis # "") =>
        /\ app.analysisOf.data = app.data
        /\ app.info # NoData
        /\ app.analysisOf.symbol = app.info.symbol

=============================================================================
